---------------------------- MODULE Spec2Model ----------------------------
(***************************************************************************)
(* State-machine model of the Resummate backend (danthaman44/experience-iq)*)
(*                                                                         *)
(*   - the chat endpoint (api/index.py handle_chat_data) and the event     *)
(*     stream generators: api/services/gemini.py stream_response and       *)
(*     stream_resume_required_message, api/utils/gemini.py                 *)
(*     stream_gemini_response.  A generator takes one step from each       *)
(*     suspension (yield or await) to the next;                            *)
(*   - the message store and the two document tables (api/db/service.py).  *)
(*                                                                         *)
(* Text is a sequence of tokens, "" and None are both the empty sequence   *)
(* (the code only ever tests them for truthiness).  Every call to the      *)
(* store or to the remote gateway either returns or raises; which one is   *)
(* chosen nondeterministically at the step that makes the call.            *)
(***************************************************************************)
EXTENDS Naturals, Sequences, FiniteSets, TLC

(***************************************************************************)
(* Bounds of the model                                                     *)
(***************************************************************************)
\* number of elements the remote generation stream may deliver
MaxChunks == 2
\* number of document operations (save / delete) started in one behaviour
MaxOps == 3
\* polls of the remote handle that the observation counts (it saturates there)
MaxPolls == 2
\* rows of the message tables a history request is tried on
MaxRows == 3

(***************************************************************************)
(* Program constants                                                       *)
(***************************************************************************)
\* default of get_messages' limit parameter
HistoryLimit == 20

\* upload size cap, in bytes
MAX_UPLOAD_SIZE == 10 * 1024 * 1024

text_stream_id == "text-1"
message_text == <<"Please upload a resume before chatting with Resummate.">>
NoRef == "None"

(***************************************************************************)
(* Input domains                                                           *)
(***************************************************************************)
Uuids == {"u1", "u2"}
MessageUuids == {"m1", "m2"}
RequestIds == {"t1", NoRef}
Fragments == {<< >>, <<"a">>}
ToolTexts == {<< >>, <<"b">>}
Chunks == [function_call : BOOLEAN, text : Fragments]
Part(t) == [text |-> t]
ClientMessage(c, ps) == [content |-> c, parts |-> ps]
Workers == {"w1", "w2"}
Tables == {"resume", "job_description"}
DocThreads == {"t1"}
FileNames == {"cv.pdf"}
Files ==
    { [name |-> "files/1", mime_type |-> "application/pdf", state |-> "ACTIVE"],
      [name |-> "files/2", mime_type |-> "text/plain", state |-> "ACTIVE"] }
\* what the store client raises
StoreErrors == {"store refused"}
Sizes == {0, 1, MAX_UPLOAD_SIZE, MAX_UPLOAD_SIZE + 1, 2 * MAX_UPLOAD_SIZE}
UploadNames == {"cv.pdf", NoRef}
RemoteStates == {"PROCESSING", "ACTIVE", "FAILED"}
\* what the remote calls raise: a network failure, a rejection by the service
UploadErrors == {"network", "rejected"}
\* arguments of a direct call of a stream generator
Prompts == {<<"more">>}
CallThreads == {"t1"}
ResumeNames == {"files/1"}
JobDescriptionNames == {NoRef, "files/2"}
Bodies ==
    { << >>,
      << ClientMessage(<<"hi">>, << >>) >>,
      << ClientMessage(<< >>, << >>) >>,
      << ClientMessage(<< >>, << Part(<< >>) >>) >>,
      << ClientMessage(<< >>, << Part(<<"re">>), Part(<< >>), Part(<<"view">>) >>) >>,
      << ClientMessage(<<"hi">>, << >>), ClientMessage(<< >>, << >>) >> }

(***************************************************************************)
(* Sequence helpers                                                        *)
(***************************************************************************)
RECURSIVE SelectSeqBy(_, _)
Reverse(s) == [i \in 1..Len(s) |-> s[Len(s) + 1 - i]]
Take(s, n) == SubSeq(s, 1, IF Len(s) < n THEN Len(s) ELSE n)
\* a variant that takes the first element
First(s) == s[1]

Last(s) == s[Len(s)]
SelectSeqBy(s, t) ==
    IF s = << >> THEN << >>
    ELSE IF Head(s).thread_id = t THEN <<Head(s)>> \o SelectSeqBy(Tail(s), t)
    ELSE SelectSeqBy(Tail(s), t)

(***************************************************************************)
(* Event-stream framing (format_sse payloads and the sentinel line)        *)
(***************************************************************************)
StartEvent(id) == [type |-> "start", messageId |-> <<"msg-", id>>]
TextStart == [type |-> "text-start", id |-> text_stream_id]
TextDelta(d) == [type |-> "text-delta", id |-> text_stream_id, delta |-> d]
TextEnd == [type |-> "text-end", id |-> text_stream_id]
Finish == [type |-> "finish"]
Sentinel == [data |-> "[DONE]"]

IsType(e, t) == "type" \in DOMAIN e /\ e.type = t
CountType(evs, t) == Cardinality({i \in 1..Len(evs) : IsType(evs[i], t)})
RECURSIVE ConcatDeltas(_)
ConcatDeltas(evs) ==
    IF evs = << >> THEN << >>
    ELSE (IF IsType(Head(evs), "text-delta") THEN Head(evs).delta ELSE << >>)
         \o ConcatDeltas(Tail(evs))

(***************************************************************************)
(* State                                                                   *)
(***************************************************************************)
VARIABLES
    message,          \* the message table, in sent_at order
    resume,           \* the resume table, in insertion order
    job_description,  \* the job_description table, in insertion order
    chat,             \* the chat request in flight: handler and generator locals
    obs,              \* observation of the chat request (history variables)
    op,               \* the document operations in flight, per worker
    nops,             \* document operations started so far
    up,               \* the upload request in flight: endpoint and upload_file locals
    remote,           \* processing state of the uploaded file at the remote service
    tmp,              \* the temporary files that exist on disk
    hist              \* the chat-history request: its input and its response

vars == <<message, resume, job_description, chat, obs, op, nops, up, remote, tmp, hist>>

UploadVars == <<up, remote, tmp>>
HistoryVars == <<hist>>

Message(t, s, c) == [thread_id |-> t, sender |-> s, content |-> c]


(***************************************************************************)
(* Message store: api/db/service.py                                        *)
(***************************************************************************)
\* create_message: one INSERT into the message table
\* a variant that keeps one row per sender and thread
create_message_upsert(tbl, m) ==
    IF \E i \in 1..Len(tbl) : tbl[i].thread_id = m.thread_id /\ tbl[i].sender = m.sender
    THEN [i \in 1..Len(tbl) |->
            IF tbl[i].thread_id = m.thread_id /\ tbl[i].sender = m.sender THEN m ELSE tbl[i]]
    ELSE Append(tbl, m)

create_message(tbl, m) == Append(tbl, m)

\* get_messages: rows of the thread, newest first (sent_at DESC), at most `limit`
\* a variant that ignores the limit
get_messages_unlimited(tbl, t, limit) == Reverse(SelectSeqBy(tbl, t))

get_messages(tbl, t, limit) == Take(Reverse(SelectSeqBy(tbl, t)), limit)

\* get_resume / get_job_description: the rows of the thread, None (empty) if none
get_document(tbl, t) == SelectSeqBy(tbl, t)

(***************************************************************************)
(* POST /api/chat: api/index.py handle_chat_data                           *)
(***************************************************************************)
RECURSIVE Join(_)
Join(ps) ==
    IF ps = << >> THEN << >>
    ELSE IF Len(ps) = 1 THEN ps[1]
    ELSE ps[1] \o <<" ">> \o Join(Tail(ps))

TextParts(parts) == SelectSeq([i \in 1..Len(parts) |-> parts[i].text], LAMBDA t : t # << >>)

\* prompt = last_message.content or "", else the non-empty part texts joined by " "
ExtractPrompt(last_message) ==
    IF last_message.content # << >> THEN last_message.content
    ELSE IF last_message.parts # << >> THEN Join(TextParts(last_message.parts))
    ELSE << >>

\* no stream element is being handled
NoChunk == [function_call |-> FALSE, text |-> << >>]

NewChat ==
    [ pc |-> "idle", fn |-> "none", status |-> 0, body |-> << >>, thread_id |-> NoRef,
      prompt |-> << >>, file_reference |-> NoRef, job_description_reference |-> NoRef,
      message_id |-> NoRef, text_started |-> FALSE, accumulated_content |-> << >>,
      events |-> << >>, yielded |-> 0, nchunks |-> 0, chunk |-> NoChunk, delta |-> << >>,
      contents |-> << >>, retrieved_history |-> << >>, raised |-> FALSE ]

NewObs ==
    [ wrote |-> << >>, fail_kind |-> "none", fail_at |-> 0, gateway_calls |-> 0,
      message_content |-> << >>,
      received |-> << >> ]

\* an exception leaves the handler before a response exists: FastAPI answers 500
HandlerFails(kind) ==
    /\ chat' = [chat EXCEPT !.pc = "failed", !.status = 500]
    /\ obs' = [obs EXCEPT !.fail_kind = kind, !.fail_at = Len(chat.events)]

DocVars == <<resume, job_description, op, nops, UploadVars, HistoryVars>>

\* a variant that streams although the user turn could not be stored
HandleChatDataRespondAnyway ==
    /\ chat.pc = "idle"
    /\ \E body \in Bodies, id \in RequestIds, u \in Uuids, ok \in BOOLEAN :
         IF body = << >> \/ ExtractPrompt(Last(body)) = << >>
         THEN /\ chat' = [chat EXCEPT !.pc = "rejected", !.fn = "handle_chat_data",
                                      !.status = 400, !.body = body]
              /\ UNCHANGED <<message, obs>>
         ELSE LET prompt == ExtractPrompt(Last(body))
                  thread_id == IF id # NoRef THEN id ELSE u
              IN /\ chat' = [chat EXCEPT !.pc = "get_resume", !.fn = "handle_chat_data",
                                !.prompt = prompt, !.thread_id = thread_id, !.body = body]
                 /\ IF ok
                    THEN /\ message' = create_message(message, Message(thread_id, "user", prompt))
                         /\ obs' = [obs EXCEPT !.wrote = Append(@, Len(message) + 1)]
                    ELSE /\ obs' = [obs EXCEPT !.fail_kind = "user_write"]
                         /\ UNCHANGED message
    /\ UNCHANGED DocVars

\* lines 64-84: validation (400), thread id, then the write of the user turn
HandleChatData ==
    /\ chat.pc = "idle"
    /\ \E body \in Bodies, id \in RequestIds, u \in Uuids, ok \in BOOLEAN :
         IF body = << >> \/ ExtractPrompt(Last(body)) = << >>
         THEN /\ chat' = [chat EXCEPT !.pc = "rejected", !.fn = "handle_chat_data",
                                      !.status = 400, !.body = body]
              /\ UNCHANGED <<message, obs>>
         ELSE LET prompt == ExtractPrompt(Last(body))
                  thread_id == IF id # NoRef THEN id ELSE u
              IN IF ok
                 THEN /\ message' = create_message(message, Message(thread_id, "user", prompt))
                      /\ chat' = [chat EXCEPT !.pc = "get_resume", !.fn = "handle_chat_data",
                                     !.prompt = prompt, !.thread_id = thread_id, !.body = body]
                      /\ obs' = [obs EXCEPT !.wrote = Append(@, Len(message) + 1)]
                 ELSE /\ chat' = [chat EXCEPT !.pc = "failed", !.fn = "handle_chat_data",
                                     !.status = 500, !.body = body]
                      /\ obs' = [obs EXCEPT !.fail_kind = "user_write"]
                      /\ UNCHANGED message
    /\ UNCHANGED DocVars

\* lines 86-92: resume lookup; no row selects the resume-required stream
GetResume ==
    /\ chat.pc = "get_resume"
    /\ \E ok \in BOOLEAN :
         IF ~ok THEN HandlerFails("lookup")
         ELSE LET rows == get_document(resume, chat.thread_id)
              IN /\ IF rows = << >>
                    THEN chat' = [chat EXCEPT !.pc = "rr_start", !.status = 200,
                                     !.fn = "stream_resume_required_message"]
                    ELSE chat' = [chat EXCEPT !.pc = "get_job_description",
                                              !.file_reference = rows[1].name]
                 /\ UNCHANGED obs
    /\ UNCHANGED <<message, DocVars>>

\* index.py line 9 imports stream_gemini_response from utils/gemini.py, where it
\* is declared (line 77) with the parameters prompt, session_id, file_reference
StreamGeminiResponseParameters == 3

\* index.py lines 99-101: the handler passes prompt, thread_id, resume[0]["name"]
\* and job_description_reference
StreamGeminiResponseArguments == 4

\* a variant in which every call binds
BindsAlways(arguments, parameters) == TRUE

\* none of the parameters has a default (utils/gemini.py line 77), so a call
\* binds its positional arguments only if there is exactly one for each
\* parameter: with more it raises TypeError (takes 3 positional arguments but 4
\* were given), with fewer TypeError (missing required positional argument),
\* in both cases before the body of the function runs
Binds(arguments, parameters) == arguments = parameters

\* lines 94-104: optional job description lookup, then the call that is to build
\* the streaming response; the TypeError of the call leaves the handler (500)
GetJobDescription ==
    /\ chat.pc = "get_job_description"
    /\ \E ok \in BOOLEAN :
         IF ~ok THEN HandlerFails("lookup")
         ELSE LET rows == get_document(job_description, chat.thread_id)
                  job_description_reference == IF rows # << >> THEN rows[1].name ELSE NoRef
              IN IF Binds(StreamGeminiResponseArguments, StreamGeminiResponseParameters)
                 THEN /\ chat' = [chat EXCEPT !.pc = "s_start", !.status = 200,
                                     !.fn = "stream_gemini_response",
                                     !.job_description_reference = job_description_reference]
                      /\ UNCHANGED obs
                 ELSE /\ chat' = [chat EXCEPT !.pc = "failed", !.status = 500,
                                     !.job_description_reference = job_description_reference]
                      /\ obs' = [obs EXCEPT !.fail_kind = "call", !.fail_at = Len(chat.events)]
    /\ UNCHANGED <<message, DocVars>>

(***************************************************************************)
(* The two stream generators called with their own parameters.  Nothing in *)
(* src/ calls stream_response; the caller of either function supplies the  *)
(* prompt, the thread and the stored names of the documents.               *)
(***************************************************************************)
\* services/gemini.py lines 145-152: stream_response(gemini_client, supabase, prompt,
\* thread_id, file_reference, job_description_reference=None)
CallStreamResponse ==
    /\ chat.pc = "idle"
    /\ \E prompt \in Prompts, thread_id \in CallThreads,
          file_reference \in ResumeNames, job_description_reference \in JobDescriptionNames :
         chat' = [chat EXCEPT !.pc = "s_start", !.fn = "stream_response",
                    !.prompt = prompt, !.thread_id = thread_id,
                    !.file_reference = file_reference,
                    !.job_description_reference = job_description_reference]
    /\ UNCHANGED <<message, obs, DocVars>>

\* utils/gemini.py line 77: stream_gemini_response(prompt, session_id, file_reference)
CallStreamGeminiResponse ==
    /\ chat.pc = "idle"
    /\ \E prompt \in Prompts, session_id \in CallThreads, file_reference \in ResumeNames :
         chat' = [chat EXCEPT !.pc = "s_start", !.fn = "stream_gemini_response",
                    !.prompt = prompt, !.thread_id = session_id,
                    !.file_reference = file_reference]
    /\ UNCHANGED <<message, obs, DocVars>>

(***************************************************************************)
(* api/services/gemini.py stream_response                                  *)
(* (api/utils/gemini.py stream_gemini_response has the same start event,   *)
(* files.get, closing of the text block, persistence, finish and except    *)
(* clause; the steps below that are shared read chat.fn where they differ) *)
(***************************************************************************)
\* an exception outside the try block ends the generator where it stands
GeneratorRaises(kind) ==
    /\ chat' = [chat EXCEPT !.pc = "raised", !.raised = TRUE]
    /\ obs' = [obs EXCEPT !.fail_kind = kind, !.fail_at = Len(chat.events),
                          !.gateway_calls = IF kind = "resolve" THEN @ + 1 ELSE @]

\* an exception inside the try block transfers control to the except clause
\* (which does not read the loop variable)
EnterExcept(kind) ==
    /\ chat' = [chat EXCEPT !.pc = "except", !.chunk = NoChunk, !.delta = << >>,
                            !.yielded = 0]
    /\ obs' = [obs EXCEPT !.fail_kind = kind, !.fail_at = Len(chat.events),
                          !.gateway_calls = IF kind = "tool_send" THEN @ + 1 ELSE @]

\* line 177 (utils/gemini.py line 87): the start event
StreamStart ==
    /\ chat.pc = "s_start"
    /\ \E u \in MessageUuids :
         chat' = [chat EXCEPT !.pc = "s_resolve_resume", !.message_id = u,
                              !.events = Append(@, StartEvent(u))]
    /\ UNCHANGED <<message, obs, DocVars>>

\* line 186 (utils/gemini.py line 89): files.get(name=file_reference), before the
\* try block
ResolveResume ==
    /\ chat.pc = "s_resolve_resume"
    /\ \E ok \in BOOLEAN :
         IF ~ok THEN GeneratorRaises("resolve")
         ELSE /\ chat' = [chat EXCEPT !.pc =
                    IF chat.fn = "stream_gemini_response" THEN "a_session"
                    ELSE IF chat.job_description_reference # NoRef
                    THEN "s_resolve_job_description" ELSE "s_open"]
              /\ obs' = [obs EXCEPT !.gateway_calls = @ + 1]
    /\ UNCHANGED <<message, DocVars>>

\* lines 189-194: files.get(name=job_description_reference), before the try block
ResolveJobDescription ==
    /\ chat.pc = "s_resolve_job_description"
    /\ \E ok \in BOOLEAN :
         IF ~ok THEN GeneratorRaises("resolve")
         ELSE /\ chat' = [chat EXCEPT !.pc = "s_open"]
              /\ obs' = [obs EXCEPT !.gateway_calls = @ + 1]
    /\ UNCHANGED <<message, DocVars>>

\* a variant that never attaches the job description
ContentsWithoutJobDescription(c) == <<c.prompt, c.file_reference>>

\* lines 199-201: the contents of the generation call
Contents(c) ==
    <<c.prompt, c.file_reference>>
    \o (IF c.job_description_reference # NoRef
        THEN <<c.job_description_reference>> ELSE << >>)

\* lines 197-205: accumulated_content = "", generate_content_stream(...)
OpenStream ==
    /\ chat.pc = "s_open"
    /\ \E ok \in BOOLEAN :
         /\ chat' = [chat EXCEPT !.pc = IF ok THEN "s_iter" ELSE "except",
                                 !.accumulated_content = << >>,
                                 !.contents = Contents(chat)]
         /\ obs' = [obs EXCEPT !.gateway_calls = @ + 1,
                        !.fail_kind = IF ok THEN @ ELSE "open",
                        !.fail_at = IF ok THEN @ ELSE Len(chat.events)]
    /\ UNCHANGED <<message, DocVars>>

\* a variant that keeps only the latest fragment
AccumulateLatest(acc, delta) == delta

\* lines 226 and 235: accumulated_content += delta
Accumulate(acc, delta) == acc \o delta

\* a variant that relays the delta without opening the text block
RelayWithoutStart(c, delta) ==
    [c EXCEPT !.events = Append(@, TextDelta(delta)), !.pc = "relay_delta",
              !.text_started = TRUE, !.delta = delta]

\* lines 219-225 and 228-234, up to the first yield: the generator is suspended
\* at `yield text-start` when no text block is open (text_started is assigned
\* when it resumes), and at `yield text-delta` otherwise
Relay(c, delta) ==
    IF ~c.text_started
    THEN [c EXCEPT !.events = Append(@, TextStart), !.pc = "relay_started", !.delta = delta]
    ELSE [c EXCEPT !.events = Append(@, TextDelta(delta)), !.pc = "relay_delta",
                   !.delta = delta]

\* lines 222-226 and 231-235, from one yield to the next suspension: after
\* text-start, text_started = True and the text-delta; after the text-delta,
\* accumulated_content += delta and back to the loop.
\* (utils/gemini.py lines 130-134: the text was accumulated before the yields)
RelayResume ==
    /\ chat.pc \in {"relay_started", "relay_delta"}
    /\ chat' = IF chat.pc = "relay_started"
               THEN [chat EXCEPT !.text_started = TRUE,
                                 !.events = Append(@, TextDelta(chat.delta)),
                                 !.pc = "relay_delta"]
               ELSE IF chat.fn = "stream_gemini_response"
               THEN [chat EXCEPT !.delta = << >>, !.pc = "a_iter"]
               ELSE [chat EXCEPT !.accumulated_content = Accumulate(@, chat.delta),
                                 !.delta = << >>, !.pc = "s_iter"]
    /\ UNCHANGED <<message, obs, DocVars>>

\* lines 237-238: close the text block if one was opened
CloseText(c) ==
    [c EXCEPT !.events = @ \o (IF c.text_started THEN <<TextEnd>> ELSE << >>)]

\* a variant that also relays the text of an element that carries a function call
OnChunkRelayOwnText(c, chunk) ==
    IF chunk.text # << >> THEN [Relay(c, chunk.text) EXCEPT !.chunk = chunk]
    ELSE IF chunk.function_call THEN [c EXCEPT !.pc = "fc_history", !.chunk = chunk]
    ELSE [c EXCEPT !.chunk = chunk]

\* lines 207-211, 227-235: the body of the loop up to the tool call or the first
\* yield; a function call takes precedence over the element's text, an element
\* with neither is skipped
OnChunk(c, chunk) ==
    IF chunk.function_call THEN [c EXCEPT !.pc = "fc_history", !.chunk = chunk]
    ELSE IF chunk.text # << >> THEN [Relay(c, chunk.text) EXCEPT !.chunk = chunk]
    ELSE [c EXCEPT !.chunk = chunk]

\* lines 207-209, 227-238: one step of `for chunk in stream`, up to the next
\* suspension of the generator
NextChunk ==
    /\ chat.pc = "s_iter"
    /\ \/ /\ EnterExcept("iter")
       \/ /\ chat' = [CloseText(chat) EXCEPT !.pc = "s_persist", !.chunk = NoChunk]
          /\ UNCHANGED obs
       \/ /\ chat.nchunks < MaxChunks
          /\ \E chunk \in Chunks :
               /\ chat' = OnChunk([chat EXCEPT !.nchunks = @ + 1], chunk)
               /\ obs' = [obs EXCEPT !.received =
                             IF ~chunk.function_call /\ chunk.text # << >>
                             THEN Append(@, chunk.text) ELSE @]
    /\ UNCHANGED <<message, DocVars>>

\* handle_function_call lines 117-125: stored rows, reversed, as role/parts entries
\* a variant that replays the rows in the order of the store
RetrievedHistoryNewestFirst(past_messages) ==
    [i \in 1..Len(past_messages) |->
        [role |-> past_messages[i].sender,
         parts |-> << [text |-> past_messages[i].content] >>]]

RetrievedHistory(past_messages) ==
    [i \in 1..Len(past_messages) |->
        [role |-> Reverse(past_messages)[i].sender,
         parts |-> << [text |-> Reverse(past_messages)[i].content] >>]]

\* handle_function_call lines 117-135: get_messages and the chat session's history
ToolHistory ==
    /\ chat.pc = "fc_history"
    /\ \E ok \in BOOLEAN :
         IF ~ok THEN EnterExcept("tool_history")
         ELSE /\ chat' = [chat EXCEPT !.pc = "fc_send",
                    !.retrieved_history =
                        RetrievedHistory(get_messages(message, chat.thread_id, HistoryLimit))]
              /\ UNCHANGED obs
    /\ UNCHANGED <<message, DocVars>>

\* a variant that sends the documents with an empty prompt
MessageContentWithoutPrompt(c) ==
    << << >>, c.file_reference >>
    \o (IF c.job_description_reference # NoRef
        THEN <<c.job_description_reference>> ELSE << >>)

\* handle_function_call lines 137-139: message_content = [user_message, resume],
\* and the job description if there is one
MessageContent(c) ==
    <<c.prompt, c.file_reference>>
    \o (IF c.job_description_reference # NoRef
        THEN <<c.job_description_reference>> ELSE << >>)

\* handle_function_call lines 137-142 and stream_response lines 219-221, up to
\* the first yield
ToolSend ==
    /\ chat.pc = "fc_send"
    /\ \/ /\ EnterExcept("tool_send")
       \/ \E response \in ToolTexts :
            /\ chat' = IF response # << >>
                       THEN Relay(chat, response)
                       ELSE [chat EXCEPT !.pc = "s_iter"]
            /\ obs' = [obs EXCEPT !.gateway_calls = @ + 1,
                          !.message_content = MessageContent(chat),
                          !.received = IF response # << >> THEN Append(@, response) ELSE @]
    /\ UNCHANGED <<message, DocVars>>

\* a variant that persists whatever was accumulated, even nothing
ShouldPersistAlways(accumulated_content) == TRUE

\* line 240: if accumulated_content
ShouldPersist(accumulated_content) == accumulated_content # << >>

\* lines 240-246 (utils/gemini.py lines 140-141): persist the accumulated text as
\* one "model" message
PersistModelMessage ==
    /\ chat.pc = "s_persist"
    /\ IF ~ShouldPersist(chat.accumulated_content)
       THEN /\ chat' = [chat EXCEPT !.pc = "s_finish"]
            /\ UNCHANGED <<message, obs>>
       ELSE \E ok \in BOOLEAN :
              IF ok
              THEN /\ message' = create_message(message,
                          Message(chat.thread_id, "model", chat.accumulated_content))
                   /\ chat' = [chat EXCEPT !.pc = "s_finish"]
                   /\ obs' = [obs EXCEPT !.wrote = Append(@, Len(message) + 1)]
              ELSE /\ EnterExcept("persist")
                   /\ UNCHANGED message
    /\ UNCHANGED DocVars

\* lines 248-249 (utils/gemini.py lines 143-144): what the end of the try block yields
FinishEvents == <<Finish, Sentinel>>

\* lines 248-249: one yield per step, finish and then the sentinel; the generator
\* returns when it is resumed after the sentinel
FinishStream ==
    /\ chat.pc = "s_finish"
    /\ chat' = IF chat.yielded + 1 < Len(FinishEvents)
               THEN [chat EXCEPT !.events = Append(@, FinishEvents[chat.yielded + 1]),
                                 !.yielded = @ + 1]
               ELSE [chat EXCEPT !.events = Append(@, FinishEvents[chat.yielded + 1]),
                                 !.yielded = 0, !.pc = "done"]
    /\ UNCHANGED <<message, obs, DocVars>>

\* a variant that closes the text block whether or not one was opened
ExceptEventsAlwaysClose(text_started) == <<TextEnd, Finish, Sentinel>>

\* lines 253-256 (utils/gemini.py lines 147-150): what the except clause yields
ExceptEvents(text_started) ==
    (IF text_started THEN <<TextEnd>> ELSE << >>) \o <<Finish, Sentinel>>

\* a variant that saves what had been accumulated when the failure happened
ExceptHandlerSavesPartial ==
    /\ chat.pc = "except"
    /\ chat' = IF chat.yielded < Len(ExceptEvents(chat.text_started))
               THEN [chat EXCEPT
                        !.events = Append(@, ExceptEvents(chat.text_started)[chat.yielded + 1]),
                        !.yielded = @ + 1]
               ELSE [chat EXCEPT !.pc = "raised", !.raised = TRUE, !.yielded = 0]
    /\ IF chat.yielded = 0 /\ chat.accumulated_content # << >>
       THEN /\ message' = create_message(message,
                   Message(chat.thread_id, "model", chat.accumulated_content))
            /\ obs' = [obs EXCEPT !.wrote = Append(@, Len(message) + 1)]
       ELSE UNCHANGED <<message, obs>>
    /\ UNCHANGED DocVars

\* lines 250-257 (utils/gemini.py lines 145-151): the except clause, one yield per
\* step, ending in `raise` when the generator is resumed after the sentinel
ExceptHandler ==
    /\ chat.pc = "except"
    /\ chat' = IF chat.yielded < Len(ExceptEvents(chat.text_started))
               THEN [chat EXCEPT
                        !.events = Append(@, ExceptEvents(chat.text_started)[chat.yielded + 1]),
                        !.yielded = @ + 1]
               ELSE [chat EXCEPT !.pc = "raised", !.raised = TRUE, !.yielded = 0]
    /\ UNCHANGED <<message, obs, DocVars>>

(***************************************************************************)
(* api/utils/gemini.py stream_gemini_response: the steps of its own        *)
(***************************************************************************)
\* lines 93-107: get_session, create_session if there is none; a failure is
\* raised as HTTPException(500) outside the second try block
AdkSession ==
    /\ chat.pc = "a_session"
    /\ \E ok \in BOOLEAN :
         IF ~ok THEN GeneratorRaises("session")
         ELSE /\ chat' = [chat EXCEPT !.pc = "a_run"]
              /\ UNCHANGED obs
    /\ UNCHANGED <<message, DocVars>>

\* lines 110-120: Runner(...), runner.run(new_message=prompt), accumulated_content = ""
AdkRun ==
    /\ chat.pc = "a_run"
    /\ \E ok \in BOOLEAN :
         /\ chat' = [chat EXCEPT !.pc = IF ok THEN "a_iter" ELSE "except",
                                 !.accumulated_content = << >>,
                                 !.contents = <<chat.prompt>>]
         /\ obs' = [obs EXCEPT !.fail_kind = IF ok THEN @ ELSE "run",
                        !.fail_at = IF ok THEN @ ELSE Len(chat.events)]
    /\ UNCHANGED <<message, DocVars>>

\* lines 129-134: a chunk with text is accumulated first and then relayed
AdkOnChunk(c, chunk_text) ==
    IF chunk_text # << >>
    THEN Relay([c EXCEPT !.accumulated_content = Accumulate(@, chunk_text)], chunk_text)
    ELSE c

\* lines 122-137: one step of `for chunk in response`, up to the next suspension
AdkNextChunk ==
    /\ chat.pc = "a_iter"
    /\ \/ /\ EnterExcept("iter")
       \/ /\ chat' = [CloseText(chat) EXCEPT !.pc = "s_persist"]
          /\ UNCHANGED obs
       \/ /\ chat.nchunks < MaxChunks
          /\ \E chunk_text \in Fragments :
               /\ chat' = AdkOnChunk([chat EXCEPT !.nchunks = @ + 1], chunk_text)
               /\ obs' = [obs EXCEPT !.received =
                             IF chunk_text # << >> THEN Append(@, chunk_text) ELSE @]
    /\ UNCHANGED <<message, DocVars>>

(***************************************************************************)
(* api/services/gemini.py stream_resume_required_message                   *)
(***************************************************************************)
\* lines 281-286: start, text-start, the fixed text, text-end
ResumeRequiredEvents(u) == <<StartEvent(u), TextStart, TextDelta(message_text), TextEnd>>

\* lines 277-286: one yield per step; the message id is drawn before the first
ResumeRequiredStart ==
    /\ chat.pc = "rr_start"
    /\ \E u \in MessageUuids :
         LET id == IF chat.yielded = 0 THEN u ELSE chat.message_id
             last == chat.yielded + 1 = Len(ResumeRequiredEvents(id))
         IN chat' = [chat EXCEPT !.message_id = id,
                        !.events = Append(@, ResumeRequiredEvents(id)[chat.yielded + 1]),
                        !.yielded = IF last THEN 0 ELSE @ + 1,
                        !.pc = IF last THEN "rr_persist" ELSE @]
    /\ UNCHANGED <<message, obs, DocVars>>

\* a variant that stores the fixed text twice
ResumeRequiredPersistTwice ==
    /\ chat.pc = "rr_persist"
    /\ LET row == Message(chat.thread_id, "model", message_text)
       IN /\ message' = create_message(create_message(message, row), row)
          /\ chat' = [chat EXCEPT !.pc = "rr_finish"]
          /\ obs' = [obs EXCEPT !.wrote = @ \o <<Len(message) + 1, Len(message) + 2>>]
    /\ UNCHANGED DocVars

\* lines 288-290: persist the fixed text; no handler surrounds the call
ResumeRequiredPersist ==
    /\ chat.pc = "rr_persist"
    /\ \E ok \in BOOLEAN :
         IF ok
         THEN /\ message' = create_message(message,
                     Message(chat.thread_id, "model", message_text))
              /\ chat' = [chat EXCEPT !.pc = "rr_finish"]
              /\ obs' = [obs EXCEPT !.wrote = Append(@, Len(message) + 1)]
         ELSE /\ chat' = [chat EXCEPT !.pc = "raised", !.raised = TRUE]
              /\ obs' = [obs EXCEPT !.fail_kind = "persist", !.fail_at = Len(chat.events)]
              /\ UNCHANGED message
    /\ UNCHANGED DocVars

\* lines 292-293: one yield per step, finish and then the sentinel
ResumeRequiredFinish ==
    /\ chat.pc = "rr_finish"
    /\ chat' = IF chat.yielded + 1 < Len(FinishEvents)
               THEN [chat EXCEPT !.events = Append(@, FinishEvents[chat.yielded + 1]),
                                 !.yielded = @ + 1]
               ELSE [chat EXCEPT !.events = Append(@, FinishEvents[chat.yielded + 1]),
                                 !.yielded = 0, !.pc = "done"]
    /\ UNCHANGED <<message, obs, DocVars>>

(***************************************************************************)
(* Document tables: api/db/service.py                                      *)
(***************************************************************************)
\* _extract_file_data, lines 297-328 (the attributes the endpoints read)
extract_file_data(thread_id, file_name, file) ==
    [thread_id |-> thread_id, file_name |-> file_name, name |-> file.name,
     mime_type |-> file.mime_type, state |-> file.state]

Table(name) == IF name = "resume" THEN resume ELSE job_description

\* a variant that rewrites only the first row of the thread
UpdateFirstRow(tbl, t, file_data) ==
    [i \in 1..Len(tbl) |->
        IF tbl[i].thread_id = t /\ (\A j \in 1..(i - 1) : tbl[j].thread_id # t)
        THEN file_data ELSE tbl[i]]

\* table.update(file_data).eq("thread_id", t): every row of the thread is rewritten
UpdateRows(tbl, t, file_data) ==
    [i \in 1..Len(tbl) |-> IF tbl[i].thread_id = t THEN file_data ELSE tbl[i]]

\* table.insert(file_data)
InsertRow(tbl, file_data) == Append(tbl, file_data)

\* table.delete().eq("thread_id", t): every row of the thread is removed
DeleteRows(tbl, t) == SelectSeq(tbl, LAMBDA row : row.thread_id # t)

IdleOp ==
    [pc |-> "idle", call |-> "none", table |-> "resume", thread_id |-> NoRef,
     file_data |-> << >>, existing |-> << >>, overlapped |-> FALSE, status |-> 0,
     checked |-> FALSE, exc |-> << >>, detail |-> << >>]

\* the name of the table as the messages of the service spell it
TableLabel(table) == IF table = "resume" THEN "resume" ELSE "job description"

\* lines 117-120, 145-147, 175-178 (and 221-223, 253-255, 292-294):
\* raise Exception(f"Error saving resume: {e}"), and the like for get and delete
ServiceError(call, table, e) ==
    << (IF call = "save" THEN "Error saving "
        ELSE IF call = "delete" THEN "Error deleting " ELSE "Error getting "),
       TableLabel(table), ": ", e >>

Active(w) == op[w].pc \in {"select", "write"}
\* the record in which the save of the upload endpoint runs
UploadWorker == "w1"
\* the record of a worker is taken while its operation runs, and for the upload
\* endpoint until it has answered: the save returns into the endpoint, which
\* answers without a suspension in between (resume.py lines 24-32)
Busy(w) == Active(w) \/ (w = UploadWorker /\ up.pc = "saving")
SameKey(v, table, t) == Active(v) /\ op[v].table = table /\ op[v].thread_id = t

SetTable(name, rows) ==
    /\ resume' = IF name = "resume" THEN rows ELSE resume
    /\ job_description' = IF name = "job_description" THEN rows ELSE job_description

ChatVars == <<message, chat, obs, UploadVars, HistoryVars>>

\* save_resume / save_job_description is entered (lines 81-99, 181-199) by the
\* request of record `w`: the records after the entry.  `overlapped` notes, on
\* both sides, that another save of the same table and thread is in flight
EnterSave(w, table, t, file_data) ==
    [v \in Workers |->
       IF v = w
       THEN [pc |-> "select", call |-> "save", table |-> table, thread_id |-> t,
             file_data |-> file_data, existing |-> << >>,
             overlapped |-> \E x \in Workers \ {w} :
                               SameKey(x, table, t) /\ op[x].call = "save",
             status |-> 0, checked |-> FALSE, exc |-> << >>,
             detail |-> << >>]
       ELSE IF SameKey(v, table, t) /\ op[v].call = "save"
       THEN [op[v] EXCEPT !.overlapped = TRUE]
       ELSE op[v]]

\* save_resume / save_job_description are called (lines 81-99, 181-199)
BeginSave(w) ==
    /\ ~Busy(w)
    /\ nops < MaxOps
    /\ \E table \in Tables, t \in DocThreads, fn \in FileNames, f \in Files :
         op' = EnterSave(w, table, t, extract_file_data(t, fn, f))
    /\ nops' = nops + 1
    /\ UNCHANGED <<resume, job_description, ChatVars>>

\* delete_resume / delete_job_description are called (lines 150-165, 258-273)
BeginDelete(w) ==
    /\ ~Busy(w)
    /\ nops < MaxOps
    /\ \E table \in Tables, t \in DocThreads :
         op' = [op EXCEPT ![w] = [IdleOp EXCEPT !.pc = "select", !.call = "delete",
                                                !.table = table, !.thread_id = t]]
    /\ nops' = nops + 1
    /\ UNCHANGED <<resume, job_description, ChatVars>>

\* resume.py lines 46-54 (job_description.py 43-51): the answer of the DELETE
\* endpoint once the delete has returned or raised
DeleteEndpointStatus(pc) ==
    IF pc = "returned" THEN 200 ELSE IF pc = "raised" THEN 500 ELSE 0

\* resume.py line 54 (job_description.py line 45): detail=f"Error deleting
\* resume: {e}", e being the exception of the service
DeleteEndpointDetail(table, e) == <<"Error deleting ", TableLabel(table), ": ">> \o e

\* the detail of the answer when the operation `o` raises `e`: only the DELETE
\* endpoint catches the exception of the service
RaisedDetail(o, e) == IF o.call = "delete" THEN DeleteEndpointDetail(o.table, e) ELSE << >>

\* the answer an operation's endpoint gives when the operation stops at `pc`
EndpointStatus(o, pc) == IF o.call = "delete" THEN DeleteEndpointStatus(pc) ELSE o.status

\* a variant in which deleting a missing document is an error
SelectExistingMissingIsError(w) ==
    /\ op[w].pc = "select"
    /\ \E ok \in BOOLEAN, e \in StoreErrors :
         LET rows == get_document(Table(op[w].table), op[w].thread_id)
             pc == IF ~ok THEN "raised"
                   ELSE IF op[w].call = "delete" /\ rows = << >> THEN "raised"
                   ELSE "write"
         IN op' = [op EXCEPT ![w].pc = pc,
                     ![w].existing = IF ok THEN rows ELSE << >>,
                     ![w].checked = ok,
                     ![w].exc = IF ok THEN << >>
                                ELSE ServiceError(op[w].call, op[w].table, e),
                     ![w].detail = IF ok THEN << >>
                                   ELSE RaisedDetail(op[w],
                                            ServiceError(op[w].call, op[w].table, e)),
                     ![w].status = EndpointStatus(op[w], pc)]
    /\ UNCHANGED <<resume, job_description, nops, ChatVars>>

\* lines 102-104, 167-171 (and 202-207, 275-282): the existence check
SelectExisting(w) ==
    /\ op[w].pc = "select"
    /\ \E ok \in BOOLEAN, e \in StoreErrors :
         LET rows == get_document(Table(op[w].table), op[w].thread_id)
             pc == IF ~ok THEN "raised"
                   ELSE IF op[w].call = "delete" /\ rows = << >> THEN "returned"
                   ELSE "write"
         IN op' = [op EXCEPT ![w].pc = pc,
                     ![w].existing = IF ok THEN rows ELSE << >>,
                     ![w].checked = ok,
                     ![w].exc = IF ok THEN << >>
                                ELSE ServiceError(op[w].call, op[w].table, e),
                     ![w].detail = IF ok THEN << >>
                                   ELSE RaisedDetail(op[w],
                                            ServiceError(op[w].call, op[w].table, e)),
                     ![w].status = EndpointStatus(op[w], pc)]
    /\ UNCHANGED <<resume, job_description, nops, ChatVars>>

\* lines 106-114 (and 209-217): update if the check saw a row, else insert
SaveRows(tbl, existing, t, file_data) ==
    IF existing # << >> THEN UpdateRows(tbl, t, file_data) ELSE InsertRow(tbl, file_data)

\* lines 106-116 (and 209-219): the write of save_resume / save_job_description
SaveWrite(w) ==
    /\ op[w].pc = "write"
    /\ op[w].call = "save"
    /\ \E ok \in BOOLEAN, e \in StoreErrors :
         /\ op' = [op EXCEPT ![w].pc = IF ok THEN "returned" ELSE "raised",
                      ![w].exc = IF ok THEN << >>
                                 ELSE ServiceError(op[w].call, op[w].table, e)]
         /\ SetTable(op[w].table,
                IF ok THEN SaveRows(Table(op[w].table), op[w].existing,
                                    op[w].thread_id, op[w].file_data)
                ELSE Table(op[w].table))
    /\ UNCHANGED <<nops, ChatVars>>

\* lines 173-174 (and 284-290): the write of delete_resume / delete_job_description
DeleteWrite(w) ==
    /\ op[w].pc = "write"
    /\ op[w].call = "delete"
    /\ \E ok \in BOOLEAN, e \in StoreErrors :
         /\ op' = [op EXCEPT ![w].pc = IF ok THEN "returned" ELSE "raised",
                      ![w].exc = IF ok THEN << >>
                                 ELSE ServiceError(op[w].call, op[w].table, e),
                      ![w].detail = IF ok THEN << >>
                                    ELSE RaisedDetail(op[w],
                                             ServiceError(op[w].call, op[w].table, e)),
                      ![w].status = DeleteEndpointStatus(IF ok THEN "returned" ELSE "raised")]
         /\ SetTable(op[w].table,
                IF ok THEN DeleteRows(Table(op[w].table), op[w].thread_id)
                ELSE Table(op[w].table))
    /\ UNCHANGED <<nops, ChatVars>>

\* resume.py lines 37-39 (job_description.py 32-36): 404 when the lookup finds no row
GetEndpointStatus(rows) == IF rows = << >> THEN 404 ELSE 200

\* resume.py lines 35-43 (job_description.py 31-40): the GET endpoint; an exception
\* of the lookup is not handled and is answered 500
GetDocument(w) ==
    /\ ~Busy(w)
    /\ nops < MaxOps
    /\ \E table \in Tables, t \in DocThreads, ok \in BOOLEAN, e \in StoreErrors :
         LET rows == get_document(Table(table), t)
         IN op' = [op EXCEPT ![w] =
                     [IdleOp EXCEPT !.pc = IF ok THEN "returned" ELSE "raised",
                         !.call = "get", !.table = table, !.thread_id = t,
                         !.existing = IF ok THEN rows ELSE << >>,
                         !.exc = IF ok THEN << >> ELSE ServiceError("get", table, e),
                         !.status = IF ok THEN GetEndpointStatus(rows) ELSE 500]]
    /\ nops' = nops + 1
    /\ UNCHANGED <<resume, job_description, ChatVars>>

(***************************************************************************)
(* Upload: api/utils/gemini.py upload_file_to_gemini (the same code as    *)
(* api/services/gemini.py upload_file) and the endpoints of api/resume.py  *)
(* and api/job_description.py                                              *)
(***************************************************************************)
NoFile == [name |-> NoRef, mime_type |-> NoRef, state |-> NoRef]
\* the handle the remote service returns for the uploaded file
RemoteFile(state) == [name |-> "files/9", mime_type |-> "application/pdf", state |-> state]
TempPath == "tmp-1"

NewUpload ==
    [ pc |-> "idle", table |-> "resume", size |-> 0, filename |-> NoRef, uuid |-> NoRef,
      gemini_file |-> NoFile, returned |-> FALSE, error |-> 0, status |-> 0,
      fail_kind |-> "none", temp_created |-> FALSE, remote_called |-> FALSE, polls |-> 0,
      exc |-> NoRef, detail |-> << >> ]

\* resume.py lines 31-32, job_description.py lines 27-28: except Exception -> 500
EndpointErrorStatus(error) == 500

\* str(HTTPException): "<status_code>: <detail>"
StrHTTPException(status_code, detail) == <<ToString(status_code), ": ">> \o detail

\* resume.py line 32: detail=f"Error uploading file: {e}"
EndpointDetail(e) == <<"Error uploading file: ">> \o e

\* the upload call raises (error: the status of its HTTPException, 0 for any
\* other exception; e: the text of the exception); the endpoint's handler answers
UploadRaises(u, error, kind, e) ==
    [u EXCEPT !.pc = "responded", !.error = error, !.fail_kind = kind,
              !.status = EndpointErrorStatus(error), !.detail = EndpointDetail(e)]

\* a variant that also rejects a payload of exactly the cap
TooLargeOrEqual(size) == size >= MAX_UPLOAD_SIZE

\* a variant with a cap ten times as large
TooLargeTenfold(size) == size > 10 * MAX_UPLOAD_SIZE

\* utils/gemini.py line 154 (services/gemini.py line 64 agrees on every size)
TooLarge(size) == size > MAX_UPLOAD_SIZE

\* a variant that returns the handle of the upload call as it is
StillProcessingNever(file) == FALSE

\* line 171: the condition of the polling loop
StillProcessing(file) == file.state = "PROCESSING"

\* a variant that reports a rejection by the remote service as a client error
UploadExceptByKind(u, kind, e) ==
    [UploadRaises(u, IF e = "rejected" THEN 400 ELSE 500, kind,
                  StrHTTPException(IF e = "rejected" THEN 400 ELSE 500,
                                   <<"Error uploading file: ", e>>))
        EXCEPT !.exc = e]

\* lines 176-182: except Exception as e -> HTTPException(500, f"Error uploading
\* file: {e}"), through the finally clause
UploadExcept(u, kind, e) ==
    [UploadRaises(u, 500, kind, StrHTTPException(500, <<"Error uploading file: ", e>>))
        EXCEPT !.exc = e]

\* a variant that raises when the remote service reports the file as failed
ReturnHandleUnlessFailed(u, file) ==
    IF file.state = "FAILED" THEN UploadExcept(u, "failed", "failed")
    ELSE [u EXCEPT !.pc = "save", !.gemini_file = file, !.returned = TRUE]

\* lines 175, 179-182: return gemini_file through the finally clause
ReturnHandle(u, file) ==
    [u EXCEPT !.pc = "save", !.gemini_file = file, !.returned = TRUE]

\* lines 179-182: if os.path.exists(temp_path): os.unlink(temp_path)
Unlink(files, path) == files \ {path}

UploadRest == <<message, chat, obs, hist, resume, job_description, op, nops>>

\* endpoint lines 14-17 and upload_file_to_gemini lines 153-155: the size check
UploadRequest ==
    /\ up.pc = "idle"
    /\ \E table \in Tables, size \in Sizes, fn \in UploadNames, id \in RequestIds :
         LET u == [up EXCEPT !.table = table, !.size = size, !.filename = fn, !.uuid = id]
         IN up' = IF TooLarge(size)
                  THEN UploadRaises(u, 413, "size",
                           StrHTTPException(413, <<"File size exceeds the allowed limit">>))
                  ELSE [u EXCEPT !.pc = "temp"]
    /\ UNCHANGED <<remote, tmp, UploadRest>>

\* lines 158-162: NamedTemporaryFile(delete=False) creates the file; the call is
\* then suspended at `await file.read()` with the empty file on disk.  The block
\* is not covered by the try/finally that follows
CreateTemp ==
    /\ up.pc = "temp"
    /\ \E ok \in BOOLEAN :
         /\ up' = IF ok
                  THEN [up EXCEPT !.pc = "temp_read", !.temp_created = TRUE]
                  ELSE UploadRaises(up, 0, "create_fails", <<"create_fails">>)
         /\ tmp' = IF ok THEN tmp \cup {TempPath} ELSE tmp
    /\ UNCHANGED <<remote, UploadRest>>

\* lines 162-164: the payload is read and written into the temporary file, which
\* is closed and kept
WriteTemp ==
    /\ up.pc = "temp_read"
    /\ \E outcome \in {"ok", "read_fails", "write_fails"} :
         up' = IF outcome = "ok"
               THEN [up EXCEPT !.pc = "remote_upload"]
               ELSE UploadRaises(up, 0, outcome, <<outcome>>)
    /\ UNCHANGED <<remote, tmp, UploadRest>>

\* line 168 (then 171, 175-182): files.upload(file=temp_path)
RemoteUpload ==
    /\ up.pc = "remote_upload"
    /\ \/ /\ \E e \in UploadErrors :
               up' = [UploadExcept(up, "upload", e) EXCEPT !.remote_called = TRUE]
          /\ tmp' = Unlink(tmp, TempPath)
          /\ UNCHANGED remote
       \/ \E state \in RemoteStates :
            LET file == RemoteFile(state)
                u == [up EXCEPT !.remote_called = TRUE, !.gemini_file = file]
            IN /\ remote' = state
               /\ IF StillProcessing(file)
                  THEN up' = [u EXCEPT !.pc = "poll"] /\ UNCHANGED tmp
                  ELSE up' = ReturnHandle(u, file) /\ tmp' = Unlink(tmp, TempPath)
    /\ UNCHANGED UploadRest

\* a variant that gives up after a fixed number of polls
PollGivesUp ==
    /\ up.pc = "poll"
    /\ IF up.polls = MaxPolls
       THEN up' = UploadExcept(up, "timeout", "timeout") /\ tmp' = Unlink(tmp, TempPath)
       ELSE LET file == RemoteFile(remote)
                u == [up EXCEPT !.polls = @ + 1, !.gemini_file = file]
            IN IF StillProcessing(file)
               THEN up' = u /\ UNCHANGED tmp
               ELSE up' = ReturnHandle(u, file) /\ tmp' = Unlink(tmp, TempPath)
    /\ UNCHANGED <<remote, UploadRest>>

\* lines 171-173 (then 175-182): sleep, files.get(name=gemini_file.name), loop test
Poll ==
    /\ up.pc = "poll"
    /\ \/ /\ \E e \in UploadErrors : up' = UploadExcept(up, "poll", e)
          /\ tmp' = Unlink(tmp, TempPath)
       \/ LET file == RemoteFile(remote)
              u == [up EXCEPT !.polls = IF @ < MaxPolls THEN @ + 1 ELSE @,
                              !.gemini_file = file]
          IN IF StillProcessing(file)
             THEN up' = u /\ UNCHANGED tmp
             ELSE up' = ReturnHandle(u, file) /\ tmp' = Unlink(tmp, TempPath)
    /\ UNCHANGED <<remote, UploadRest>>

\* the remote service finishes processing the file
RemoteProgress ==
    /\ remote = "PROCESSING"
    /\ remote' \in {"ACTIVE", "FAILED"}
    /\ UNCHANGED <<up, tmp, UploadRest>>

\* resume.py line 23, job_description.py line 23: file.filename or a default
DefaultFileName(table) == IF table = "resume" THEN "resume.pdf" ELSE "job_description.pdf"

\* endpoint lines 19-26: thread id, file name, save_resume / save_job_description
UploadSave ==
    /\ up.pc = "save"
    /\ ~Busy(UploadWorker)
    /\ \E u \in Uuids :
         LET thread_id == IF up.uuid # NoRef THEN up.uuid ELSE u
             file_name == IF up.filename # NoRef THEN up.filename
                          ELSE DefaultFileName(up.table)
         IN op' = EnterSave(UploadWorker, up.table, thread_id,
                            extract_file_data(thread_id, file_name, up.gemini_file))
    /\ up' = [up EXCEPT !.pc = "saving"]
    /\ UNCHANGED <<remote, tmp, message, chat, obs, hist, resume, job_description, nops>>

\* endpoint lines 28-32: the success message, or 500 if the save raised
UploadRespond ==
    /\ up.pc = "saving"
    /\ op[UploadWorker].pc \in {"returned", "raised"}
    /\ up' = IF op[UploadWorker].pc = "returned"
             THEN [up EXCEPT !.pc = "responded", !.status = 200]
             ELSE [up EXCEPT !.pc = "responded", !.fail_kind = "save",
                             !.status = EndpointErrorStatus(0),
                             !.detail = EndpointDetail(op[UploadWorker].exc)]
    /\ UNCHANGED <<remote, tmp, UploadRest>>

(***************************************************************************)
(* GET /api/chat/history/{thread_id}: api/index.py get_chat_history        *)
(***************************************************************************)
HistoryThreads == {"t1", "t2"}

\* the rows as the store returns them: `id` is the serial number of the row,
\* and sent_at grows with it
WithIds(tbl) ==
    [i \in 1..Len(tbl) |->
        [id |-> i, thread_id |-> tbl[i].thread_id, sender |-> tbl[i].sender,
         content |-> tbl[i].content]]

\* lines 115-122: UIMessage(id=str(message["id"]), role=..., parts=[MessagePart])
UIMessage(m) ==
    [id |-> ToString(m.id),
     role |-> IF m.sender = "model" THEN "assistant" ELSE "user",
     parts |-> << [type |-> "text", text |-> m.content] >>]

\* lines 113-122: the loop over stored_messages
UIMessages(stored_messages) ==
    [i \in 1..Len(stored_messages) |-> UIMessage(stored_messages[i])]

\* a variant that answers in the order of the store
HistoryResponseStoreOrder(stored_messages) == UIMessages(stored_messages)

\* line 123: ChatHistoryResponse(messages=ui_messages[::-1])
HistoryResponse(stored_messages) == Reverse(UIMessages(stored_messages))

\* lines 108-126: the whole handler; a failed read is answered with 500
GetChatHistory ==
    /\ \E thread_id \in HistoryThreads, ok \in BOOLEAN :
         hist' = IF ok
                 THEN [pc |-> "responded", thread_id |-> thread_id, status |-> 200,
                       messages |-> HistoryResponse(
                           get_messages(WithIds(message), thread_id, HistoryLimit))]
                 ELSE [pc |-> "responded", thread_id |-> thread_id, status |-> 500,
                       messages |-> << >>]
    /\ UNCHANGED <<message, chat, obs, resume, job_description, op, nops, UploadVars>>

(***************************************************************************)
(* Specifications                                                          *)
(***************************************************************************)
NewHistory == [pc |-> "idle", thread_id |-> NoRef, status |-> 0, messages |-> << >>]
StoredResume == extract_file_data("t1", "cv.pdf", CHOOSE f \in Files : f.name = "files/1")
StoredJobDescription == extract_file_data("t1", "jd.txt", CHOOSE f \in Files : f.name = "files/2")
EarlierTurns == << Message("t1", "user", <<"hi">>), Message("t1", "model", <<"a">>) >>
\* the same thread once a caller of a stream generator has stored the user turn
StoredTurn == Append(EarlierTurns, Message("t1", "user", <<"more">>))

\* a chat request arrives at a store that earlier requests and uploads have filled
ChatInit ==
    /\ message \in {<< >>, EarlierTurns, StoredTurn}
    /\ resume \in {<< >>, <<StoredResume>>}
    /\ job_description \in {<< >>, <<StoredJobDescription>>}
    /\ chat = NewChat
    /\ obs = NewObs
    /\ op = [w \in Workers |-> IdleOp]
    /\ nops = 0
    /\ up = NewUpload
    /\ remote = "none"
    /\ tmp = {}
    /\ hist = NewHistory

\* the document tables are empty when the first upload arrives
DocInit ==
    /\ message = << >>
    /\ resume = << >>
    /\ job_description = << >>
    /\ chat = NewChat
    /\ obs = NewObs
    /\ op = [w \in Workers |-> IdleOp]
    /\ nops = 0
    /\ up = NewUpload
    /\ remote = "none"
    /\ tmp = {}
    /\ hist = NewHistory

\* an upload arrives; the thread may already have documents
UploadInit ==
    /\ message = << >>
    /\ resume \in {<< >>, <<StoredResume>>}
    /\ job_description \in {<< >>, <<StoredJobDescription>>}
    /\ chat = NewChat
    /\ obs = NewObs
    /\ op = [w \in Workers |-> IdleOp]
    /\ nops = 0
    /\ up = NewUpload
    /\ remote = "none"
    /\ tmp = {}
    /\ hist = NewHistory

\* tables of up to MaxRows rows over two threads, and two long ones
HistoryRows == {Message(t, sd, <<"hi">>) : t \in HistoryThreads, sd \in {"user", "model"}}
ShortTables == UNION {[1..n -> HistoryRows] : n \in 0..MaxRows}
LongThread(n) ==
    [i \in 1..n |-> Message("t1", IF i % 2 = 1 THEN "user" ELSE "model", <<"hi">>)]
LongMixed(n) ==
    [i \in 1..n |-> Message(IF i % 3 = 0 THEN "t2" ELSE "t1",
                             IF i % 2 = 1 THEN "user" ELSE "model", <<"hi">>)]
LongTables ==
    {LongThread(HistoryLimit), LongThread(HistoryLimit + 1), LongMixed(HistoryLimit + 2)}

\* a history request arrives at a store that earlier chats have filled
HistoryInit ==
    /\ message \in ShortTables \cup LongTables
    /\ resume = << >>
    /\ job_description = << >>
    /\ chat = NewChat
    /\ obs = NewObs
    /\ op = [w \in Workers |-> IdleOp]
    /\ nops = 0
    /\ up = NewUpload
    /\ remote = "none"
    /\ tmp = {}
    /\ hist = NewHistory

\* threads that have grown past the history limit, every row with its own text
NumberedThread(n) ==
    [i \in 1..n |-> Message("t1", IF i % 2 = 1 THEN "user" ELSE "model", <<ToString(i)>>)]
NumberedMixed(n) ==
    [i \in 1..n |-> Message(IF i % 4 = 0 THEN "t2" ELSE "t1",
                             IF i % 2 = 1 THEN "user" ELSE "model", <<ToString(i)>>)]
NumberedTables ==
    {NumberedThread(HistoryLimit), NumberedThread(HistoryLimit + 2),
     NumberedMixed(HistoryLimit + 8)}

\* a chat request and history requests arrive at a thread with a long history
LongHistoryInit ==
    /\ message \in NumberedTables
    /\ resume = <<StoredResume>>
    /\ job_description = <<StoredJobDescription>>
    /\ chat = NewChat
    /\ obs = NewObs
    /\ op = [w \in Workers |-> IdleOp]
    /\ nops = 0
    /\ up = NewUpload
    /\ remote = "none"
    /\ tmp = {}
    /\ hist = NewHistory

\* a chat request arrives at a thread that has earlier turns and a job
\* description, and no resume yet
StoreInit ==
    /\ message = EarlierTurns
    /\ resume = << >>
    /\ job_description = <<StoredJobDescription>>
    /\ chat = NewChat
    /\ obs = NewObs
    /\ op = [w \in Workers |-> IdleOp]
    /\ nops = 0
    /\ up = NewUpload
    /\ remote = "none"
    /\ tmp = {}
    /\ hist = NewHistory

Init == DocInit

ChatNext ==
    \/ HandleChatData
    \/ GetResume
    \/ GetJobDescription
    \/ CallStreamResponse
    \/ CallStreamGeminiResponse
    \/ StreamStart
    \/ ResolveResume
    \/ ResolveJobDescription
    \/ OpenStream
    \/ NextChunk
    \/ RelayResume
    \/ ToolHistory
    \/ ToolSend
    \/ PersistModelMessage
    \/ FinishStream
    \/ ExceptHandler
    \/ AdkSession
    \/ AdkRun
    \/ AdkNextChunk
    \/ ResumeRequiredStart
    \/ ResumeRequiredPersist
    \/ ResumeRequiredFinish

\* stream_response called with its own parameters, and its steps
StreamResponseNext ==
    \/ CallStreamResponse
    \/ StreamStart
    \/ ResolveResume
    \/ ResolveJobDescription
    \/ OpenStream
    \/ NextChunk
    \/ RelayResume
    \/ ToolHistory
    \/ ToolSend
    \/ PersistModelMessage
    \/ FinishStream
    \/ ExceptHandler

DocNext ==
    \E w \in Workers :
        \/ BeginSave(w)
        \/ BeginDelete(w)
        \/ SelectExisting(w)
        \/ SaveWrite(w)
        \/ DeleteWrite(w)
        \/ GetDocument(w)

UploadNext ==
    \/ UploadRequest
    \/ CreateTemp
    \/ WriteTemp
    \/ RemoteUpload
    \/ Poll
    \/ RemoteProgress
    \/ UploadSave
    \/ SelectExisting(UploadWorker)
    \/ SaveWrite(UploadWorker)
    \/ UploadRespond

HistoryNext == GetChatHistory

\* history requests for the thread of the chat request
StoreHistory == GetChatHistory /\ hist'.thread_id = "t1"

\* one delete of a document of the thread, if no upload has been received
StoreDelete ==
    \/ BeginDelete("w2") /\ nops = 0 /\ up.pc = "idle"
    \/ SelectExisting("w2")
    \/ DeleteWrite("w2")

\* one upload of a resume of exactly the cap for the thread, if no delete has
\* been received
StoreUploadRequest ==
    /\ UploadRequest
    /\ nops = 0
    /\ up'.table = "resume"
    /\ up'.size = MAX_UPLOAD_SIZE
    /\ up'.uuid = "t1"
    /\ up'.filename = "cv.pdf"

\* the upload and every step that follows it
StoreUpload ==
    \/ StoreUploadRequest
    \/ CreateTemp
    \/ WriteTemp
    \/ RemoteUpload
    \/ Poll
    \/ RemoteProgress
    \/ UploadSave
    \/ SelectExisting(UploadWorker)
    \/ SaveWrite(UploadWorker)
    \/ UploadRespond

\* every operation that runs while the message table exists: a chat request,
\* with history requests and one document request (an upload or a delete)
\* around it, each step of which may fall between any two steps of the others
StoreNext ==
    \/ ChatNext
    \/ StoreHistory
    \/ StoreDelete
    \/ StoreUpload

\* a chat request with history requests around it
LongHistoryNext ==
    \/ StreamResponseNext
    \/ HistoryNext

Next == ChatNext \/ DocNext \/ UploadNext \/ HistoryNext

ChatSpec == ChatInit /\ [][ChatNext]_vars
DocSpec == DocInit /\ [][DocNext]_vars
UploadSpec == UploadInit /\ [][UploadNext]_vars
\* the polling loop keeps running: a poll that can be made is made
UploadFairSpec == UploadSpec /\ WF_vars(Poll)
StoreSpec == StoreInit /\ [][StoreNext]_vars
HistorySpec == HistoryInit /\ [][HistoryNext]_vars
LongHistorySpec == LongHistoryInit /\ [][LongHistoryNext]_vars
Spec == Init /\ [][Next]_vars

(***************************************************************************)
(* Vocabulary of the properties                                            *)
(***************************************************************************)
\* the generator has stopped: it returned, or an exception left it
StreamOver == chat.pc \in {"done", "raised"}
\* which generator is running: stream_response, or the resume-required stream
StreamingBranch == chat.fn = "stream_response"
ResumePromptBranch == chat.fn = "stream_resume_required_message"
\* the request came in through POST /api/chat (nothing else in src/ calls the
\* resume-required stream)
HandlerRequest == chat.fn \in {"handle_chat_data", "stream_resume_required_message"}
\* the rows this request wrote, in order
Written == [i \in 1..Len(obs.wrote) |-> message[obs.wrote[i]]]
ModelRows == SelectSeq(Written, LAMBDA row : row.sender = "model")
UserTurn == Message(chat.thread_id, "user", chat.prompt)
\* the rows of the thread without the answer of this request, and whether they
\* end with the user turn of this request (stored by the handler, or by the
\* caller of the generator)
RowsBeforeAnswer ==
    LET rows == SelectSeqBy(message, chat.thread_id)
    IN SubSeq(rows, 1, Len(rows) - Len(ModelRows))
TurnStored == RowsBeforeAnswer # << >> /\ Last(RowsBeforeAnswer) = UserTurn
\* failures of the gateway, and failures inside the try block of stream_response
GatewayFailures == {"resolve", "open", "iter", "tool_send"}
TryFailures == {"open", "iter", "tool_history", "tool_send"}
EventsBeforeFailure == SubSeq(chat.events, 1, obs.fail_at)
EventsAfterFailure == SubSeq(chat.events, obs.fail_at + 1, Len(chat.events))
EndsWithTerminator(evs) ==
    /\ Len(evs) >= 2
    /\ evs[Len(evs) - 1] = Finish
    /\ evs[Len(evs)] = Sentinel
    /\ CountType(evs, "finish") = 1

(***************************************************************************)
(* C1: every event stream of a chat request, in either branch and whether  *)
(* the request succeeds or fails at any step, ends with exactly one finish *)
(* event immediately followed by the [DONE] sentinel.                      *)
(* Stated as the claim; the code violates it (handle resolution and the    *)
(* resume-prompt persistence run outside any handler).                     *)
(***************************************************************************)
C1_StreamEndsWithFinishAndSentinel ==
    StreamOver => EndsWithTerminator(chat.events)

(***************************************************************************)
(* C2: every event stream holds at most one text-start and at most one     *)
(* text-end, also when a failure happens after the text block was closed.  *)
(* Stated as the claim; the code violates it (a failed persistence write   *)
(* reaches the except clause after text-end was already yielded).          *)
(***************************************************************************)
C2_AtMostOneTextBlock ==
    /\ CountType(chat.events, "text-start") <= 1
    /\ CountType(chat.events, "text-end") <= 1

(***************************************************************************)
(* C3: for a thread with no resume row at lookup time the stream is        *)
(* exactly start, text-start, text-delta(fixed text), text-end, finish,    *)
(* [DONE]; exactly one "model" message with the fixed text is appended;    *)
(* the gateway is never called.                                            *)
(* Stated as the claim; the code violates it when the persistence write    *)
(* raises (the stream then stops after text-end).                          *)
(***************************************************************************)
C3_ResumePromptSequence ==
    (StreamOver /\ ResumePromptBranch) =>
        /\ chat.events = << StartEvent(chat.message_id), TextStart,
                            TextDelta(message_text), TextEnd, Finish, Sentinel >>
        /\ ModelRows = << Message(chat.thread_id, "model", message_text) >>
        /\ obs.gateway_calls = 0

(***************************************************************************)
(* C4: when a streamed chat completes successfully with some text, the     *)
(* concatenation of the text-delta fragments, in emission order, is the    *)
(* content of the single "model" message persisted for the request.        *)
(***************************************************************************)
C4_DeltasEqualPersistedMessage ==
    (chat.pc = "done" /\ StreamingBranch /\ ConcatDeltas(chat.events) # << >>) =>
        ModelRows = << Message(chat.thread_id, "model", ConcatDeltas(chat.events)) >>

\* a completed stream that relayed a model fragment and then a tool-call result
C4_Witness ==
    /\ chat.pc = "done"
    /\ StreamingBranch
    /\ ConcatDeltas(chat.events) = <<"a", "b">>

(***************************************************************************)
(* C5: write-before-respond.  For a request to POST /api/chat: once the    *)
(* handler is at the resume lookup or beyond, and whenever an event        *)
(* exists, the user turn is the first row the request wrote; if that write *)
(* fails the request fails with no event streamed and no row written.      *)
(***************************************************************************)
C5_WriteBeforeRespond ==
    /\ (HandlerRequest /\ chat.pc # "rejected" /\ obs.fail_kind # "user_write") =>
          (Len(Written) >= 1 /\ Written[1] = UserTurn)
    /\ (HandlerRequest /\ chat.events # << >>) =>
          (Len(Written) >= 1 /\ Written[1] = UserTurn)
    /\ obs.fail_kind = "user_write" =>
          /\ chat.pc = "failed"
          /\ chat.status = 500
          /\ chat.events = << >>
          /\ Written = << >>

\* the write of the user turn failed and the request stopped there
C5_Witness ==
    /\ obs.fail_kind = "user_write"
    /\ chat.pc = "failed"
    /\ message # << >>

(***************************************************************************)
(* C6: after a gateway failure during a streamed chat no "model" message  *)
(* is stored for the request, however many fragments were relayed before   *)
(* the failure: stream_response has written nothing, so a thread in which  *)
(* the user turn was stored before the call still ends with that turn.     *)
(***************************************************************************)
C6_NoModelMessageAfterGatewayFailure ==
    (StreamingBranch /\ obs.fail_kind \in GatewayFailures) =>
        /\ ModelRows = << >>
        /\ Written = << >>
        /\ TurnStored => Last(SelectSeqBy(message, chat.thread_id)) = UserTurn

\* the stream failed after two fragments had been relayed, and the except clause
\* ran; the thread still ends with the user turn
C6_Witness ==
    /\ StreamingBranch
    /\ obs.fail_kind = "iter"
    /\ chat.pc = "raised"
    /\ CountType(chat.events, "text-delta") = 2
    /\ TurnStored
    /\ Last(message) = UserTurn

(***************************************************************************)
(* C7: after an exception during stream iteration or on the tool-call      *)
(* path the events emitted are exactly text-end if and only if a text      *)
(* block had been opened, then finish, then [DONE], and the exception is   *)
(* re-raised.                                                              *)
(***************************************************************************)
C7_ExceptClauseEvents ==
    (chat.pc = "raised" /\ obs.fail_kind \in TryFailures) =>
        /\ EventsAfterFailure =
              (IF CountType(EventsBeforeFailure, "text-start") > 0
               THEN <<TextEnd>> ELSE << >>) \o <<Finish, Sentinel>>
        /\ chat.raised

\* the tool call failed before any text block was opened, and the handler ran
C7_Witness ==
    /\ chat.pc = "raised"
    /\ obs.fail_kind = "tool_send"
    /\ CountType(chat.events, "text-start") = 0
    /\ Len(chat.events) = 3

(***************************************************************************)
(* C8: the model message is persisted only after finish and [DONE] were    *)
(* emitted.  Stated as the claim; the code persists first in both          *)
(* generators.                                                             *)
(***************************************************************************)
C8_FinishBeforePersist ==
    [][ (Len(message') > Len(message) /\ chat.pc \in {"s_persist", "rr_persist"})
            => EndsWithTerminator(chat.events) ]_vars

(***************************************************************************)
(* C9: under any interleaving of saves and deletes each document table     *)
(* holds at most one row per thread.  Stated as the claim; the code        *)
(* violates it (two saves both see no row and both insert).                *)
(***************************************************************************)
C9_AtMostOneRowPerThread ==
    \A t \in DocThreads :
        /\ Len(get_document(resume, t)) <= 1
        /\ Len(get_document(job_description, t)) <= 1

(***************************************************************************)
(* C10: a save that overlaps no other save of the same thread and table,   *)
(* and whose check saw at most one row, leaves exactly one row for the     *)
(* thread, holding the metadata of that save.  Stated as the claim; the    *)
(* code violates it when a delete runs between the check and the write.    *)
(***************************************************************************)
C10_SaveLeavesOneRow ==
    [][ \A w \in Workers :
          ( /\ op[w].pc = "write"
            /\ op[w].call = "save"
            /\ op'[w].pc = "returned"
            /\ ~op'[w].overlapped
            /\ Len(op[w].existing) <= 1 )
          => get_document(IF op[w].table = "resume" THEN resume' ELSE job_description',
                          op[w].thread_id) = << op[w].file_data >> ]_vars

(***************************************************************************)
(* Upload vocabulary                                                       *)
(***************************************************************************)
Oversize == up.size > MAX_UPLOAD_SIZE
\* the upload call has returned or raised
UploadExited == up.pc \in {"save", "saving", "responded"}
UpstreamFailures == {"upload", "poll", "save", "create_fails", "read_fails", "write_fails"}

(***************************************************************************)
(* C11: an upload larger than the cap is rejected with the size-limit      *)
(* error (413) before any remote call is made, before any temporary file   *)
(* is created, and without any document record being written.              *)
(***************************************************************************)
C11_OversizeRejectedFirst ==
    (Oversize /\ up.pc # "idle") =>
        /\ up.pc = "responded"
        /\ up.error = 413
        /\ ~up.remote_called
        /\ remote = "none"
        /\ ~up.temp_created
        /\ tmp = {}
        /\ op[UploadWorker] = IdleOp

C11_Witness ==
    /\ up.pc = "responded"
    /\ up.size = MAX_UPLOAD_SIZE + 1
    /\ up.error = 413

(***************************************************************************)
(* C12: the upload endpoints answer an oversize file with HTTP 413, and    *)
(* answer 500 only for upstream failures.  Stated as the claim; the code   *)
(* violates it (the endpoint's except clause turns the 413 into a 500).    *)
(***************************************************************************)
C12_OversizeAnswered413 ==
    up.pc = "responded" =>
        /\ Oversize => up.status = 413
        /\ up.status = 500 => up.fail_kind \in UpstreamFailures

(***************************************************************************)
(* C13: the temporary file no longer exists when the upload call exits,    *)
(* on every path: success, remote upload failure, polling failure, and a   *)
(* failure while reading the payload or writing it to the file.  Stated as *)
(* the claim; the code violates it on the read and write failures.         *)
(***************************************************************************)
C13_TempFileRemovedOnExit ==
    UploadExited => tmp = {}

(***************************************************************************)
(* C14: the upload never returns a handle in state PROCESSING: each handle *)
(* it observes (from the upload call, then from each re-fetch by name) is  *)
(* returned iff it is not PROCESSING, and re-fetched again iff it is.      *)
(***************************************************************************)
C14_ReturnsFirstSettledHandle ==
    [][ /\ up'.returned => up'.gemini_file.state # "PROCESSING"
        /\ ( /\ up.pc \in {"remote_upload", "poll"}
             /\ up'.fail_kind = "none"
             /\ up' # up )
           => /\ up'.gemini_file = RemoteFile(remote')
              /\ up'.returned <=> up'.gemini_file.state # "PROCESSING"
              /\ up'.pc = "poll" <=> up'.gemini_file.state = "PROCESSING"
              /\ up'.pc = "save" <=> up'.gemini_file.state # "PROCESSING" ]_vars

C14_Witness ==
    /\ up.returned
    /\ up.polls = MaxPolls
    /\ up.gemini_file.state = "ACTIVE"

(***************************************************************************)
(* C15: the polling loop has no retry bound and no timeout.  The loop is   *)
(* left only by a poll that raises or by a poll that observes a state      *)
(* other than PROCESSING (so while the remote stays PROCESSING and every   *)
(* poll returns, the upload neither returns nor raises); and if the remote *)
(* eventually leaves PROCESSING for good and no poll raises, an upload     *)
(* that is polling eventually returns.                                     *)
(***************************************************************************)
C15_PollsUntilSettled ==
    /\ [][ (up.pc = "poll" /\ up'.pc # "poll")
             => \/ up'.fail_kind = "poll"
                \/ (up'.returned /\ remote # "PROCESSING") ]_vars
    /\ ( (<>[](remote # "PROCESSING") /\ [](up.fail_kind # "poll"))
           => [](up.pc = "poll" => <>up.returned) )

C15_Witness ==
    /\ up.pc = "poll"
    /\ up.polls = MaxPolls
    /\ remote = "PROCESSING"

(***************************************************************************)
(* C16: the chat-history endpoint returns the messages of the thread       *)
(* oldest first: the store returns them newest first and the handler       *)
(* reverses.  Each returned message is a row of the requested thread, with *)
(* the role and text of that row, and the rows appear in insertion order.  *)
(***************************************************************************)
RowOf(ui) == CHOOSE p \in 1..Len(message) : ToString(p) = ui.id

C16_HistoryOldestFirst ==
    (hist.pc = "responded" /\ hist.status = 200) =>
        /\ \A i \in 1..Len(hist.messages) :
             LET p == RowOf(hist.messages[i])
             IN /\ \E q \in 1..Len(message) : ToString(q) = hist.messages[i].id
                /\ message[p].thread_id = hist.thread_id
                /\ hist.messages[i].role =
                       (IF message[p].sender = "model" THEN "assistant" ELSE "user")
                /\ hist.messages[i].parts = << [type |-> "text", text |-> message[p].content] >>
        /\ \A i, j \in 1..Len(hist.messages) :
             i < j => RowOf(hist.messages[i]) < RowOf(hist.messages[j])

C16_Witness ==
    /\ hist.pc = "responded"
    /\ Len(hist.messages) = 3
    /\ hist.messages[1].role = "user"
    /\ hist.messages[3].role = "assistant"

(***************************************************************************)
(* C17: the tool-call path replays the stored messages oldest first: the   *)
(* history handed to the chat session lists the (at most HistoryLimit)     *)
(* newest rows of the thread in insertion order, each as an entry whose    *)
(* role is the row's sender and whose single text part is its content.     *)
(***************************************************************************)
C17_ToolHistoryOldestFirst ==
    chat.pc = "fc_send" =>
        LET rows == SelectSeqBy(message, chat.thread_id)
            n == IF Len(rows) < HistoryLimit THEN Len(rows) ELSE HistoryLimit
        IN /\ Len(chat.retrieved_history) = n
           /\ \A i \in 1..n :
                chat.retrieved_history[i] =
                    [role |-> rows[Len(rows) - n + i].sender,
                     parts |-> << [text |-> rows[Len(rows) - n + i].content] >>]

C17_Witness ==
    /\ chat.pc = "fc_send"
    /\ Len(chat.retrieved_history) = 3
    /\ chat.retrieved_history[2].role = "model"
    /\ chat.retrieved_history[1] # chat.retrieved_history[3]

(***************************************************************************)
(* C18: the message store is append-only: under every operation (chat on   *)
(* either branch, the tool-call path, history retrieval, document upload,  *)
(* document delete) the sequence of messages of each thread before the     *)
(* step is a prefix of the sequence after it.                              *)
(***************************************************************************)
IsPrefix(s, t) == Len(s) <= Len(t) /\ SubSeq(t, 1, Len(s)) = s
ThreadsOf(tbl) == {tbl[i].thread_id : i \in 1..Len(tbl)}

C18_MessagesAppendOnly ==
    [][ \A t \in ThreadsOf(message) \cup ThreadsOf(message') :
          IsPrefix(SelectSeqBy(message, t), SelectSeqBy(message', t)) ]_vars

\* the chat request stored its turn and the resume prompt after the earlier
\* turns, while the resume of the thread was uploaded and saved and the history
\* of the thread was read
C18_Witness ==
    /\ chat.pc = "done"
    /\ Len(SelectSeqBy(message, "t1")) = 4
    /\ SubSeq(message, 1, 2) = EarlierTurns
    /\ hist.status = 200
    /\ Len(hist.messages) >= 3
    /\ up.pc = "responded"
    /\ up.status = 200
    /\ op[UploadWorker].pc = "returned"
    /\ Len(get_document(resume, "t1")) = 1

(***************************************************************************)
(* C19: in every event stream `start` occurs exactly once and first; every *)
(* `text-delta` comes after a `text-start` and before any `text-end`;      *)
(* `text-end` occurs only if `text-start` occurred earlier; and every text *)
(* event carries the id `text-1`.                                          *)
(***************************************************************************)
TextTypes == {"text-start", "text-delta", "text-end"}
Earlier(evs, i, t) == \E j \in 1..(i - 1) : IsType(evs[j], t)

C19_EventOrder ==
    LET evs == chat.events
    IN /\ evs # << >> => (IsType(evs[1], "start") /\ CountType(evs, "start") = 1)
       /\ \A i \in 1..Len(evs) :
            /\ IsType(evs[i], "text-delta")
                 => (Earlier(evs, i, "text-start") /\ ~Earlier(evs, i, "text-end"))
            /\ IsType(evs[i], "text-end") => Earlier(evs, i, "text-start")
            /\ (\E t \in TextTypes : IsType(evs[i], t)) => evs[i].id = "text-1"

C19_Witness ==
    /\ chat.pc = "done"
    /\ CountType(chat.events, "text-delta") = 2
    /\ CountType(chat.events, "text-end") = 1
    /\ chat.text_started

(***************************************************************************)
(* C20: a POST /chat whose message list is empty, or whose last message    *)
(* has neither non-empty content nor any part with non-empty text, is      *)
(* answered with 400, leaves the message store unchanged and produces no   *)
(* event stream.                                                           *)
(***************************************************************************)
NoText(m) == m.content = << >> /\ \A k \in 1..Len(m.parts) : m.parts[k].text = << >>
InvalidBody(body) == body = << >> \/ NoText(body[Len(body)])

C20_InvalidBodyRejected ==
    [][ (chat.pc = "idle" /\ chat'.fn = "handle_chat_data" /\ InvalidBody(chat'.body))
          => /\ chat'.pc = "rejected"
             /\ chat'.status = 400
             /\ chat'.events = << >>
             /\ message' = message ]_vars
    /\ []((HandlerRequest /\ InvalidBody(chat.body))
             => (chat.pc = "rejected" /\ chat.events = << >>))

C20_Witness ==
    /\ chat.pc = "rejected"
    /\ chat.status = 400
    /\ Len(chat.body) = 2

(***************************************************************************)
(* C21: for each stream element that carries a function call the          *)
(* orchestrator enters the tool-call path once, without relaying the       *)
(* element's own text; when the tool call returns non-empty text, that     *)
(* text is relayed as one text-delta with id text-1 (after a text-start if *)
(* no text block is open) and then appended to the accumulated buffer; an  *)
(* empty result relays nothing.  The generator is suspended at each yield, *)
(* so the relay is stated yield by yield.                                  *)
(***************************************************************************)
ToolRelay == StreamingBranch /\ chat.chunk.function_call

C21_ToolResultRelayed ==
    [][ /\ (chat.pc = "s_iter" /\ chat'.nchunks # chat.nchunks /\ chat'.chunk.function_call)
             => /\ chat'.pc = "fc_history"
                /\ chat'.events = chat.events
                /\ chat'.accumulated_content = chat.accumulated_content
        /\ (chat'.pc = "fc_history" /\ chat.pc # "fc_history")
             => /\ chat.pc = "s_iter"
                /\ chat'.nchunks = chat.nchunks + 1
                /\ chat'.chunk.function_call
        /\ (chat.pc = "fc_history" /\ chat'.pc # "fc_history")
             => chat'.pc \in {"fc_send", "except"}
        /\ (chat.pc = "fc_send" /\ chat'.pc # "fc_send")
             => /\ chat'.nchunks = chat.nchunks
                /\ chat'.accumulated_content = chat.accumulated_content
                /\ \/ chat'.pc = "except" /\ chat'.events = chat.events
                   \/ /\ chat'.pc = "s_iter"
                      /\ chat'.events = chat.events
                      /\ obs'.received = obs.received
                   \/ /\ chat'.delta \in ToolTexts \ {<< >>}
                      /\ obs'.received = Append(obs.received, chat'.delta)
                      /\ IF CountType(chat.events, "text-start") = 0
                         THEN /\ chat'.pc = "relay_started"
                              /\ chat'.events = Append(chat.events,
                                      [type |-> "text-start", id |-> "text-1"])
                         ELSE /\ chat'.pc = "relay_delta"
                              /\ chat'.events = Append(chat.events,
                                      [type |-> "text-delta", id |-> "text-1",
                                       delta |-> chat'.delta])
        /\ (ToolRelay /\ chat.pc = "relay_started" /\ chat'.pc # "relay_started")
             => /\ chat'.pc = "relay_delta"
                /\ chat'.delta = chat.delta
                /\ chat'.events = Append(chat.events,
                        [type |-> "text-delta", id |-> "text-1", delta |-> chat.delta])
                /\ chat'.accumulated_content = chat.accumulated_content
        /\ (ToolRelay /\ chat.pc = "relay_delta" /\ chat'.pc # "relay_delta")
             => /\ chat'.pc = "s_iter"
                /\ chat'.nchunks = chat.nchunks
                /\ chat'.events = chat.events
                /\ chat'.accumulated_content = chat.accumulated_content \o chat.delta ]_vars

\* the result of a tool call was relayed after the text block had been opened for it
C21_Witness ==
    /\ chat.pc = "s_iter"
    /\ chat.chunk = [function_call |-> TRUE, text |-> <<"a">>]
    /\ chat.accumulated_content = <<"b">>
    /\ Len(chat.events) = 3
    /\ chat.events[2] = [type |-> "text-start", id |-> "text-1"]
    /\ chat.events[3] = [type |-> "text-delta", id |-> "text-1", delta |-> <<"b">>]

(***************************************************************************)
(* C22: if the remote stream ends naturally and neither a non-empty text   *)
(* fragment nor a non-empty tool-call result was received, no "model"      *)
(* message is persisted for the request and the event stream is exactly    *)
(* start, finish, [DONE], with no text-start and no text-end.              *)
(***************************************************************************)
NaturalEnd == chat.pc \in {"s_persist", "s_finish", "done"} /\ StreamingBranch

C22_EmptyStreamNotPersisted ==
    (NaturalEnd /\ obs.received = << >>) =>
        /\ ModelRows = << >>
        /\ CountType(chat.events, "text-start") = 0
        /\ CountType(chat.events, "text-end") = 0
        /\ chat.pc = "done" =>
             chat.events = << [type |-> "start", messageId |-> <<"msg-", chat.message_id>>],
                              [type |-> "finish"], [data |-> "[DONE]"] >>

\* two elements arrived, one of them a tool call, and none brought any text
C22_Witness ==
    /\ chat.pc = "done"
    /\ StreamingBranch
    /\ obs.received = << >>
    /\ chat.nchunks = 2
    /\ obs.gateway_calls >= 3

(***************************************************************************)
(* C23: vocabulary.  The rows the request wrote, and adjacency of "model"  *)
(* rows in the stored sequence of a thread.                                *)
(***************************************************************************)
PastValidation == chat.pc \notin {"idle", "rejected"}
UserRows == SelectSeq(Written, LAMBDA row : row.sender = "user")
NoAdjacentModelRows ==
    \A t \in ThreadsOf(message) :
        LET rows == SelectSeqBy(message, t)
        IN \A i \in 1..(Len(rows) - 1) :
             ~(rows[i].sender = "model" /\ rows[i + 1].sender = "model")
\* the model message follows the user message of the same request
ModelAfterUser ==
    \A i, j \in 1..Len(Written) :
        (Written[i].sender = "user" /\ Written[j].sender = "model") => i < j

(***************************************************************************)
(* C23, as the claim states it: each chat request that passes validation   *)
(* appends exactly one "user" message and after it at most one "model"     *)
(* message: exactly one on the resume-prompt branch and on a successful    *)
(* non-empty stream, none on a failed or empty stream; no two "model"      *)
(* messages are adjacent in a thread.  The code violates the two "exactly  *)
(* one" parts when the store refuses the write.                            *)
(***************************************************************************)
C23_OneUserAtMostOneModel ==
    PastValidation =>
        /\ HandlerRequest => UserRows = <<UserTurn>>
        /\ ModelAfterUser
        /\ Len(ModelRows) <= 1
        /\ (StreamOver /\ ResumePromptBranch) => Len(ModelRows) = 1
        /\ (chat.pc = "done" /\ StreamingBranch /\ obs.received # << >>) => Len(ModelRows) = 1
        /\ (StreamingBranch /\ (chat.pc = "raised" \/ obs.received = << >>)) => ModelRows = << >>
        /\ NoAdjacentModelRows

(***************************************************************************)
(* C23, amended: a chat request that passes validation appends exactly one *)
(* "user" message if that write succeeds and nothing at all if it fails    *)
(* (the stream generators append no "user" message themselves); after the  *)
(* user message at most one "model" message is appended: exactly one when  *)
(* the stream completes on the resume-prompt branch or after a non-empty   *)
(* streamed answer, none when the request or the stream fails (the         *)
(* persistence write included) or the stream ends empty; no two "model"    *)
(* messages are adjacent in a thread in which the user turn was stored     *)
(* before the stream.                                                      *)
(***************************************************************************)
C23_OneUserAtMostOneModelAmended ==
    PastValidation =>
        /\ HandlerRequest =>
              IF obs.fail_kind = "user_write" THEN Written = << >>
              ELSE UserRows = <<UserTurn>>
        /\ ~HandlerRequest => UserRows = << >>
        /\ ModelAfterUser
        /\ Len(ModelRows) <= 1
        /\ (chat.pc = "done" /\ ResumePromptBranch)
             => ModelRows = << Message(chat.thread_id, "model", message_text) >>
        /\ (chat.pc = "done" /\ StreamingBranch /\ obs.received # << >>) => Len(ModelRows) = 1
        /\ (chat.pc \in {"raised", "failed"} \/ (StreamingBranch /\ obs.received = << >>))
             => ModelRows = << >>
        /\ (HandlerRequest \/ TurnStored) => NoAdjacentModelRows

\* a second turn on a thread whose first turn was answered
C23_Witness ==
    /\ chat.pc = "done"
    /\ Len(SelectSeqBy(message, chat.thread_id)) = 4
    /\ SelectSeqBy(message, chat.thread_id)[2].sender = "model"
    /\ SelectSeqBy(message, chat.thread_id)[4].sender = "model"
    /\ Len(ModelRows) = 1

(***************************************************************************)
(* C24: a chat request takes the streaming branch iff a resume row exists  *)
(* for its thread at lookup time, whatever the job_description table       *)
(* holds; the job-description handle is resolved from the gateway and      *)
(* attached to the generation call iff a job-description row exists.       *)
(* (No document operation runs during the request here, so the tables are  *)
(* the tables of lookup time.)                                             *)
(* Stated as the claim; the code violates it: with a resume row the        *)
(* handler's call of stream_gemini_response passes four arguments to three *)
(* parameters and raises, so the request is answered 500 and no stream     *)
(* generator runs.                                                         *)
(***************************************************************************)
HasRow(tbl, t) == \E i \in 1..Len(tbl) : tbl[i].thread_id = t
FirstRowName(tbl, t) == tbl[CHOOSE i \in 1..Len(tbl) : tbl[i].thread_id = t].name
\* the handler is past both lookups, none of its store calls having failed
LookupsDone ==
    /\ chat.body # << >>
    /\ chat.pc \notin {"idle", "rejected", "get_resume", "get_job_description"}
    /\ obs.fail_kind \notin {"user_write", "lookup"}
\* a stream generator other than the resume-required one was started
Streams == chat.fn \in {"stream_response", "stream_gemini_response"}
AfterResolve ==
    {"s_open", "s_iter", "relay_started", "relay_delta", "fc_history", "fc_send",
     "s_persist", "s_finish"}

C24_BranchByResumeRow ==
    /\ LookupsDone =>
         /\ Streams <=> HasRow(resume, chat.thread_id)
         /\ ResumePromptBranch <=> ~HasRow(resume, chat.thread_id)
         /\ Streams =>
               (chat.job_description_reference # NoRef
                   <=> HasRow(job_description, chat.thread_id))
    /\ chat.pc = "s_resolve_job_description" => chat.job_description_reference # NoRef
    /\ (StreamingBranch /\ chat.pc \in AfterResolve /\ obs.fail_kind = "none") =>
         IF chat.job_description_reference # NoRef
         THEN /\ obs.gateway_calls >= 2
              /\ chat.pc # "s_open" =>
                   chat.contents = << chat.prompt, chat.file_reference,
                                      chat.job_description_reference >>
         ELSE /\ chat.pc = "s_open" => obs.gateway_calls = 1
              /\ chat.pc # "s_open" =>
                   chat.contents = << chat.prompt, chat.file_reference >>

(***************************************************************************)
(* C25: the size check is a strict comparison against the cap of           *)
(* 10 * 1024 * 1024 bytes: a payload of exactly the cap passes the check   *)
(* and goes on to the temporary file and the remote upload, a payload one  *)
(* byte larger is rejected with the size-limit error.                      *)
(***************************************************************************)
C25_StrictSizeComparison ==
    /\ MAX_UPLOAD_SIZE = 10485760
    /\ (up.pc # "idle" /\ up.size = 10 * 1024 * 1024) =>
          /\ up.fail_kind # "size"
          /\ up.error # 413
          /\ up.pc \in {"save", "saving"} => up.remote_called
    /\ (up.pc # "idle" /\ up.size = 10 * 1024 * 1024 + 1) =>
          /\ up.fail_kind = "size"
          /\ up.error = 413
          /\ ~up.remote_called
    /\ [][ (up.pc = "idle" /\ up'.pc # "idle" /\ up'.size = 10 * 1024 * 1024)
             => up'.pc = "temp" ]_vars

\* a payload of exactly the cap was uploaded to the remote service
C25_Witness ==
    /\ up.size = 10 * 1024 * 1024
    /\ up.remote_called
    /\ up.returned

(***************************************************************************)
(* C26: any exception raised by the remote upload call or by a poll call   *)
(* becomes one generic upload error: status 500, the same detail text      *)
(* around the original message, whatever the kind of failure; and no       *)
(* document record is written for that upload.                             *)
(***************************************************************************)
C26_GenericUploadError ==
    up.fail_kind \in {"upload", "poll"} =>
        /\ up.pc = "responded"
        /\ up.exc \in UploadErrors
        /\ up.error = 500
        /\ up.status = 500
        /\ up.detail = << "Error uploading file: ", "500", ": ",
                          "Error uploading file: ", up.exc >>
        /\ ~up.returned
        /\ op[UploadWorker] = IdleOp

\* the service rejected a poll after the handle had been re-fetched twice
C26_Witness ==
    /\ up.fail_kind = "poll"
    /\ up.exc = "rejected"
    /\ up.polls = MaxPolls

(***************************************************************************)
(* C27: deleting a document is idempotent.  A delete whose check is        *)
(* answered by the store and finds no row for the thread changes nothing,  *)
(* raises nothing and is answered 200;                                     *)
(* at the moment any delete returns, the thread has no row in that table;  *)
(* and a GET whose lookup finds no row is answered 404.                    *)
(***************************************************************************)
RowsOf(name, t) == SelectSeqBy(IF name = "resume" THEN resume ELSE job_description, t)
C27_DeleteIdempotent ==
    [][ \A w \in Workers :
          /\ ( /\ op[w].call = "delete"
               /\ op[w].pc = "select"
               /\ RowsOf(op[w].table, op[w].thread_id) = << >>
               /\ op'[w].checked )
             => /\ op'[w].pc = "returned"
                /\ op'[w].status = 200
                /\ resume' = resume
                /\ job_description' = job_description
          /\ ( /\ op'[w].call = "delete"
               /\ op[w].pc # "returned"
               /\ op'[w].pc = "returned" )
             => /\ op'[w].status = 200
                /\ SelectSeqBy(IF op'[w].table = "resume" THEN resume' ELSE job_description',
                               op'[w].thread_id) = << >>
          /\ ( /\ op'[w].call = "get"
               /\ op'[w] # op[w]
               /\ op'[w].pc = "returned" )
             => (op'[w].status = 404 <=> RowsOf(op'[w].table, op'[w].thread_id) = << >>) ]_vars

\* a second delete of the same document found nothing to delete and succeeded,
\* and a GET after it was answered 404
C27_Witness ==
    /\ op["w1"].call = "delete"
    /\ op["w1"].pc = "returned"
    /\ op["w1"].existing = << >>
    /\ op["w1"].status = 200
    /\ op["w2"].call = "get"
    /\ op["w2"].table = op["w1"].table
    /\ op["w2"].status = 404
    /\ nops = MaxOps

(***************************************************************************)
(* C28: whenever save_resume (or save_job_description) returns without     *)
(* error, a row of that thread holding the saved metadata exists in the    *)
(* table at the moment of return, also when a delete of the same thread    *)
(* runs between the save's existence check and its write.  Stated as the   *)
(* claim; the code violates it (the update then matches no row and the     *)
(* save still returns normally).                                           *)
(***************************************************************************)
C28_SavedRowExistsAtReturn ==
    [][ \A w \in Workers :
          ( /\ op[w].call = "save"
            /\ op[w].pc = "write"
            /\ op'[w].pc = "returned" )
          => LET tbl == IF op[w].table = "resume" THEN resume' ELSE job_description'
             IN \E i \in 1..Len(tbl) : tbl[i] = op[w].file_data ]_vars

(***************************************************************************)
(* C29: when concurrent saves have left several rows for one thread, a     *)
(* save whose check sees rows rewrites every row of the thread with the    *)
(* new metadata, and a delete whose check sees rows removes every row of   *)
(* the thread: a completed delete leaves no row for the thread.            *)
(***************************************************************************)
C29_DuplicatesUpdatedAndDeletedTogether ==
    [][ \A w \in Workers :
          LET before == IF op[w].table = "resume" THEN resume ELSE job_description
              after == IF op[w].table = "resume" THEN resume' ELSE job_description'
              t == op[w].thread_id
          IN /\ ( /\ op[w].call = "save"
                  /\ op[w].pc = "write"
                  /\ op'[w].pc = "returned"
                  /\ op[w].existing # << >> )
                => /\ Len(SelectSeqBy(after, t)) = Len(SelectSeqBy(before, t))
                   /\ \A i \in 1..Len(after) :
                        after[i].thread_id = t => after[i] = op[w].file_data
             /\ ( /\ op[w].call = "delete"
                  /\ op[w].pc = "write"
                  /\ op'[w].pc = "returned" )
                => \A i \in 1..Len(after) : after[i].thread_id # t ]_vars

\* two rows of one thread, left by overlapping saves, were rewritten by a third save
C29_Witness ==
    \E w \in Workers :
        /\ op[w].call = "save"
        /\ op[w].pc = "returned"
        /\ Len(op[w].existing) = 2
        /\ op[w].existing[1] # op[w].file_data
        /\ SelectSeqBy(Table(op[w].table), op[w].thread_id) = <<op[w].file_data, op[w].file_data>>

(***************************************************************************)
(* C30: the upload call treats every state other than PROCESSING as        *)
(* completion: a handle the remote service reports as FAILED is returned   *)
(* without raising, the endpoint goes on to store it as the document       *)
(* record of the thread and, the save succeeding, answers 200.             *)
(***************************************************************************)
C30_FailedHandleStoredAsSuccess ==
    (up.remote_called /\ up.gemini_file.state = "FAILED") =>
        /\ up.returned
        /\ up.error = 0
        /\ up.fail_kind \in {"none", "save"}
        /\ up.pc \in {"save", "saving", "responded"}
        /\ up.pc \in {"saving", "responded"} =>
             /\ op[UploadWorker].call = "save"
             /\ op[UploadWorker].file_data.state = "FAILED"
             /\ op[UploadWorker].file_data.name = up.gemini_file.name
        /\ up.pc = "responded" =>
             IF op[UploadWorker].pc = "returned"
             THEN /\ up.status = 200
                  /\ \E i \in 1..Len(Table(up.table)) :
                       /\ Table(up.table)[i] = op[UploadWorker].file_data
                       /\ Table(up.table)[i].state = "FAILED"
             ELSE up.status = 500

\* a file that failed processing after two polls was stored and reported as uploaded
C30_Witness ==
    /\ up.pc = "responded"
    /\ up.status = 200
    /\ up.gemini_file.state = "FAILED"
    /\ up.polls = MaxPolls
    /\ \E i \in 1..Len(Table(up.table)) : Table(up.table)[i].state = "FAILED"

(***************************************************************************)
(* C31: history retrieval is bounded to the HistoryLimit most recent       *)
(* messages of the thread.  For a thread with more than HistoryLimit       *)
(* stored messages, the chat-history endpoint answers with exactly the     *)
(* HistoryLimit rows of the thread inserted last, oldest first, and the    *)
(* tool-call path hands exactly those rows, oldest first, to the chat      *)
(* session; no older row appears in either.                                *)
(***************************************************************************)
\* the positions of the rows of thread t in the table, ascending (sent_at order)
RECURSIVE PositionsFrom(_, _, _)
PositionsFrom(tbl, t, k) ==
    IF k > Len(tbl) THEN << >>
    ELSE (IF tbl[k].thread_id = t THEN <<k>> ELSE << >>) \o PositionsFrom(tbl, t, k + 1)
ThreadPositions(tbl, t) == PositionsFrom(tbl, t, 1)
\* the position of the i-th oldest of the HistoryLimit rows inserted last
LatestPosition(ps, i) == ps[Len(ps) - HistoryLimit + i]

C31_HistoryBoundedToLatest ==
    [][ /\ (hist' # hist /\ hist'.status = 200) =>
              LET ps == ThreadPositions(message, hist'.thread_id)
              IN Len(ps) > HistoryLimit =>
                 /\ Len(hist'.messages) = HistoryLimit
                 /\ \A i \in 1..HistoryLimit :
                      LET p == LatestPosition(ps, i)
                      IN hist'.messages[i] =
                           [id |-> ToString(p),
                            role |-> IF message[p].sender = "model"
                                     THEN "assistant" ELSE "user",
                            parts |-> << [type |-> "text", text |-> message[p].content] >>]
        /\ (chat.pc = "fc_history" /\ chat'.pc = "fc_send") =>
              LET ps == ThreadPositions(message, chat.thread_id)
              IN Len(ps) > HistoryLimit =>
                 /\ Len(chat'.retrieved_history) = HistoryLimit
                 /\ \A i \in 1..HistoryLimit :
                      LET p == LatestPosition(ps, i)
                      IN chat'.retrieved_history[i] =
                           [role |-> message[p].sender,
                            parts |-> << [text |-> message[p].content] >>]
      ]_vars

\* both readers have cut a thread of more than HistoryLimit rows down to the latest ones
C31_Witness ==
    /\ chat.pc = "fc_send"
    /\ Len(ThreadPositions(message, chat.thread_id)) > HistoryLimit
    /\ Len(chat.retrieved_history) = HistoryLimit
    /\ chat.retrieved_history[1].parts[1].text # message[1].content
    /\ hist.pc = "responded"
    /\ hist.status = 200
    /\ hist.thread_id = chat.thread_id
    /\ Len(hist.messages) = HistoryLimit
    /\ hist.messages[1].id # "1"

(***************************************************************************)
(* C32: when the user turn of the request was stored before streaming      *)
(* started, the history replayed on the tool-call path already ends with   *)
(* the user message of the current request (no other request writes to the *)
(* thread here), and the same prompt is sent once more as the first part   *)
(* of the new message: the model receives the current prompt twice.        *)
(***************************************************************************)
CurrentUserEntry == [role |-> "user", parts |-> << [text |-> chat.prompt] >>]

C32_PromptSentTwice ==
    /\ obs.message_content # << >> => Head(obs.message_content) = chat.prompt
    /\ (TurnStored /\ (chat.pc = "fc_send" \/ obs.message_content # << >>)) =>
         /\ chat.retrieved_history # << >>
         /\ Last(chat.retrieved_history) = CurrentUserEntry
         /\ obs.message_content # << >> =>
              Head(obs.message_content) = Last(chat.retrieved_history).parts[1].text

\* after two earlier turns the tool call replayed the new user turn and sent it again
C32_Witness ==
    /\ chat.pc = "done"
    /\ TurnStored
    /\ obs.message_content # << >>
    /\ Len(chat.retrieved_history) = 3
    /\ Last(chat.retrieved_history) = CurrentUserEntry
    /\ chat.retrieved_history[1] # CurrentUserEntry
    /\ Head(obs.message_content) = chat.prompt
=============================================================================
